---------------------------- MODULE Spec2Model ----------------------------
(***************************************************************************)
(* The flyer renderer of src/api/flyer.py: generate_flyer_pdf as a state   *)
(* machine whose steps are the blocks the function draws, top to bottom.   *)
(*                                                                         *)
(* Lengths.  The code mixes millimetres (reportlab's mm = 72/25.4 pt),     *)
(* points and the page's scale factor, a rational n/d.  Every length of    *)
(* one call is held exactly, as an integer number of units of              *)
(* 1/(508*d) pt, d the denominator of that call's scale: a point is 508*d  *)
(* units (508 = 4*127, so that quarter points and tenths of a millimetre   *)
(* are whole), a millimetre 1440*d units, and x*scale is (x \div d)*n,     *)
(* exact for every multiple of a quarter point or a tenth of a millimetre. *)
(* The one product of two scaled values in the code (party_y) is floored   *)
(* to a unit.  The code computes in binary floating point; no comparison   *)
(* of the code is between two values that are equal as rationals except    *)
(* where both are the same expression, so the exact values decide every    *)
(* branch as the floats do.                                                *)
(*                                                                         *)
(* Strings are ASCII strings; a None is the empty string where the code    *)
(* only tests the value for truth.                                         *)
(***************************************************************************)
EXTENDS Integers, Sequences, FiniteSets, TLC

VARIABLES
    config,     \* the arguments of the call: slug and every FlyerConfig field
    pc,         \* position in generate_flyer_pdf: the block to run next
    page_w,     \* page width  (units)
    page_h,     \* page height (units)
    scale,      \* [n, d]: the scale factor n/d, in lowest terms
    theme_rgb,  \* _hex_to_rgb(config.theme_color)
    cursor_y,   \* the vertical cursor
    files,      \* the file system: each existing path's kind of content
    ops,        \* the canvas operations of the last block, in order
    order,      \* the blocks that have drawn something, in order
    gstate,     \* depth of the canvas graphics-state stack (saveState/restoreState)
    doc,        \* the document info the canvas got when it was created
    result,     \* what the call gave its caller
    now,        \* the wall clock, in seconds
    previous    \* what the previous call with this config gave its caller

vars == <<config, pc, page_w, page_h, scale, theme_rgb, cursor_y, files, ops,
          order, gstate, doc, result, now, previous>>

----------------------------------------------------------------------------
(* Small helpers                                                           *)

Min(a, b) == IF a <= b THEN a ELSE b
Max(a, b) == IF a >= b THEN a ELSE b

RECURSIVE GCD(_, _)
GCD(a, b) == IF b = 0 THEN a ELSE GCD(b, a % b)

----------------------------------------------------------------------------
(* Page sizes and units                                                    *)

\* reportlab.lib.pagesizes: A4 = (210*mm, 297*mm), A5 = (148*mm, 210*mm),
\* A6 = (105*mm, 148*mm); held here in millimetres.
A4 == <<210, 297>>
A5 == <<148, 210>>
A6 == <<105, 148>>

PAGE_SIZES == [a4 |-> A4, a5 |-> A5, a6 |-> A6]

\* PAGE_SIZES.get(config.page_size, A4)
BaseSizeFallsBackToA5(page_size) ==
    IF page_size \in DOMAIN PAGE_SIZES THEN PAGE_SIZES[page_size] ELSE A5
BaseSize(page_size) ==
    IF page_size \in DOMAIN PAGE_SIZES THEN PAGE_SIZES[page_size] ELSE A4

\* reportlab.lib.pagesizes.landscape: the longer side first
landscape(size) == IF size[1] < size[2] THEN <<size[2], size[1]>> ELSE size

\* page_w, page_h in millimetres
PageSizeIgnoresOrientation(cfg) == BaseSize(cfg.page_size)
PageSize(cfg) ==
    IF cfg.orientation = "landscape"
    THEN landscape(BaseSize(cfg.page_size))
    ELSE BaseSize(cfg.page_size)

\* scale = min(page_w / A4[0], page_h / A4[1]), as a fraction in lowest terms
ScaleUsesWidthOnly(wh) ==
    LET g == GCD(wh[1], A4[1]) IN [n |-> wh[1] \div g, d |-> A4[1] \div g]
ScaleOf(wh) ==
    LET a == wh[1] * A4[2]
        b == wh[2] * A4[1]
        m == Min(a, b)
        den == A4[1] * A4[2]
        g == GCD(m, den)
    IN  [n |-> m \div g, d |-> den \div g]

\* units per point and per millimetre in the current call
pt == 508 * scale.d
mm == 1440 * scale.d

\* x * scale, for x a multiple of scale.d units
Scaled(x) == (x \div scale.d) * scale.n

\* d tenths of a millimetre: Tenths(22) is 2.2 * mm
Tenths(d) == (d * mm) \div 10
\* q quarters of a point: Quarters(10) is 2.5 pt
Quarters(q) == (q * pt) \div 4

\* margin = 15 * mm
marginScaled == Scaled(15 * mm)
margin == 15 * mm
content_w == page_w - 2 * margin

\* min(base * scale, base) then max(.., floor): the effective font size on
\* a page of scale s, in 1/s.d pt
FontSizeAtUnclamped(base, floor, s) == base * s.n
FontSizeAt(base, floor, s) == Max(Min(base * s.n, base * s.d), floor * s.d)

\* the effective font size of the current call, in units
FontSize(base, floor) == 508 * FontSizeAt(base, floor, scale)

\* min(base * mm * scale, base * mm): QR sizes are capped, not floored
CappedMm(base) == Min(Scaled(base * mm), base * mm)

----------------------------------------------------------------------------
(* Colours                                                                 *)

HexDigits == <<"0", "1", "2", "3", "4", "5", "6", "7", "8", "9",
               "a", "b", "c", "d", "e", "f">>
UpperHex == <<"0", "1", "2", "3", "4", "5", "6", "7", "8", "9",
              "A", "B", "C", "D", "E", "F">>

IsHexDigit(ch) == \E i \in 1..16 : HexDigits[i] = ch \/ UpperHex[i] = ch
HexValue(ch) == (CHOOSE i \in 1..16 : HexDigits[i] = ch \/ UpperHex[i] = ch) - 1

RECURSIVE lstrip(_, _)
\* str.lstrip(chars): drop every leading character that is in chars
lstrip(s, chars) ==
    IF Len(s) > 0 /\ SubSeq(s, 1, 1) \in chars
    THEN lstrip(SubSeq(s, 2, Len(s)), chars)
    ELSE s

\* _hex_to_rgb raises ValueError when a six-character string is not hexadecimal
\* (int(.., 16) on the bounded alphabet of ThemeColors)
HexRaises(hex_color) ==
    LET h == lstrip(hex_color, {"#"})
    IN  Len(h) = 6 /\ \E i \in 1..6 : ~IsHexDigit(SubSeq(h, i, i))

\* _hex_to_rgb, for a colour that does not raise; components in 1/25500
\* (r / 255.0 is 100 * r, the fallback blue is 0.12, 0.44, 0.73)
_hex_to_rgb(hex_color) ==
    LET h == lstrip(hex_color, {"#"})
        byte(i) == 16 * HexValue(SubSeq(h, i, i)) + HexValue(SubSeq(h, i + 1, i + 1))
    IN  IF Len(h) # 6
        THEN <<3060, 11220, 18615>>
        ELSE <<100 * byte(1), 100 * byte(3), 100 * byte(5)>>

----------------------------------------------------------------------------
(* The texts a config may hold                                             *)

\* the number of words of a long headline; a long intro has three times,
\* a long call to action twice as many
TextWords == 10

RECURSIVE Words(_, _)
\* n times word, separated by single spaces
Words(word, n) ==
    IF n = 0 THEN "" ELSE IF n = 1 THEN word ELSE word \o " " \o Words(word, n - 1)

RECURSIVE Repeat(_, _)
\* s * n
Repeat(s, n) ==
    IF n = 0 THEN ""
    ELSE LET half == Repeat(s, n \div 2)
         IN  half \o half \o (IF n % 2 = 1 THEN s ELSE "")

LongHeadline == Words("Buergerquiz", TextWords)
LongIntro == Words("Mitmachen", 3 * TextWords)
LongCta == Words("Abstimmen", 2 * TextWords)
\* an intro of more lines than any page shows, and a bullet point of more
LongestIntro == Words("Mitmachen", 4 * TextWords)
LongBulletBody == Words("Radwege", 4 * TextWords)
LongBullet == "- " \o LongBulletBody

\* the texts that are wrapped and long
LongTexts == {LongHeadline, LongIntro, LongCta, LongestIntro, LongBulletBody}

----------------------------------------------------------------------------
(* Text layout: textwrap.wrap(text, width) with its defaults               *)
(* (break_long_words, drop_whitespace), on texts whose only whitespace is  *)
(* the space and whose words hold no hyphen                                *)

IsSpace(chunk) == chunk = "" \/ SubSeq(chunk, 1, 1) = " "

RECURSIVE RunEnd(_, _, _)
\* the last index of the run of spaces (or of non-spaces) that holds index i
RunEnd(text, i, space) ==
    IF i < Len(text) /\ ((SubSeq(text, i + 1, i + 1) = " ") <=> space)
    THEN RunEnd(text, i + 1, space)
    ELSE i

RECURSIVE ChunksFrom(_, _)
ChunksFrom(text, i) ==
    IF i > Len(text) THEN <<>>
    ELSE LET e == RunEnd(text, i, SubSeq(text, i, i) = " ")
         IN  <<SubSeq(text, i, e)>> \o ChunksFrom(text, e + 1)

\* the split of the long texts of the configs, computed once
SplitCache == [t \in LongTexts |-> ChunksFrom(t, 1)]

\* TextWrapper._split: the words and the runs of whitespace between them
Chunks(text) ==
    IF text \in DOMAIN SplitCache THEN SplitCache[text] ELSE ChunksFrom(text, 1)

RECURSIVE Join(_)
Join(chunks) == IF chunks = <<>> THEN "" ELSE Head(chunks) \o Join(Tail(chunks))

RECURSIVE FillLine(_, _, _, _)
\* the inner loop of _wrap_chunks: take chunks while they fit the width
FillLine(chunks, cur, cur_len, width) ==
    IF chunks # <<>> /\ cur_len + Len(Head(chunks)) <= width
    THEN FillLine(Tail(chunks), Append(cur, Head(chunks)),
                  cur_len + Len(Head(chunks)), width)
    ELSE [cur |-> cur, len |-> cur_len, rest |-> chunks]

RECURSIVE WrapChunks(_, _, _)
\* TextWrapper._wrap_chunks
WrapChunks(chunks, width, lines) ==
    IF chunks = <<>> THEN lines
    ELSE LET c0 == IF IsSpace(Head(chunks)) /\ lines # <<>>
                   THEN Tail(chunks) ELSE chunks
             f == FillLine(c0, <<>>, 0, width)
             \* _handle_long_word: a chunk wider than a line is cut
             long == f.rest # <<>> /\ Len(Head(f.rest)) > width
             space_left == IF width < 1 THEN 1 ELSE width - f.len
             word == Head(f.rest)
             cur1 == IF long THEN Append(f.cur, SubSeq(word, 1, space_left))
                     ELSE f.cur
             rest1 == IF long
                      THEN <<SubSeq(word, space_left + 1, Len(word))>> \o Tail(f.rest)
                      ELSE f.rest
             cur2 == IF cur1 # <<>> /\ IsSpace(cur1[Len(cur1)])
                     THEN SubSeq(cur1, 1, Len(cur1) - 1) ELSE cur1
         IN  WrapChunks(rest1, width,
                        IF cur2 # <<>> THEN Append(lines, Join(cur2)) ELSE lines)

\* textwrap.wrap(text, width=width)
wrap(text, width) == WrapChunks(Chunks(text), width, <<>>)

\* lines[:n]
TakeAll(seq, n) == seq
Take(seq, n) == SubSeq(seq, 1, Min(n, Len(seq)))

\* int(width / (size * num / den)): the character budget of a line
\* (0.5 is 1/2, 0.45 is 9/20)
MaxChars(width, size, num, den) == (width * den) \div (size * num)

----------------------------------------------------------------------------
(* Canvas operations.  x, y, w, h are in units; block is set when the      *)
(* operation is put on the canvas.                                         *)

NewOp(kind, x, y, w, h, text) ==
    [block |-> "", kind |-> kind, x |-> x, y |-> y, w |-> w, h |-> h,
     text |-> text]

\* c.rect / _draw_rounded_rect: lower-left corner (x, y), width w, height h
Rect(x, y, w, h, what) == NewOp("rect", x, y, w, h, what)
\* a filled rounded rectangle whose width is pad plus the width of text
TextRect(x, y, pad, h, text) == NewOp("textrect", x, y, pad, h, text)
\* c.drawString(x, y, text) at font size `size`: baseline y, left end x
Str(x, y, size, text) == NewOp("string", x, y, 0, size, text)
\* c.drawString(cx - stringWidth / 2, y, text): a string centred on cx
CStr(cx, y, size, text) == NewOp("cstring", cx, y, 0, size, text)
\* a string of a block of lines that is centred on cx as a whole; w is the
\* string's offset from the block's left end
BlockStr(cx, off, y, size, text) == NewOp("blockstring", cx, y, off, size, text)
\* c.drawImage(src, x, y, width, height)
Img(x, y, w, h, src) == NewOp("image", x, y, w, h, src)
\* c.drawImage of the code image that encodes payload
Qr(x, y, w, h, payload) == NewOp("qr", x, y, w, h, payload)
\* c.circle(cx, cy, r) or a circular clip path, by its bounding box
Circle(kind, cx, cy, r) == NewOp(kind, cx - r, cy - r, 2 * r, 2 * r, "")
\* c.saveState(), c.restoreState()
Op(kind) == NewOp(kind, 0, 0, 0, 0, "")

\* the operations of one block, as they are put on the canvas
Tagged(block, new_ops) ==
    [i \in 1..Len(new_ops) |-> [new_ops[i] EXCEPT !.block = block]]

RECURSIVE TextLines(_, _, _, _, _)
\* for line in lines: c.drawString(x, y, line); y -= step
TextLines(lines, x, y, size, step) ==
    IF lines = <<>> THEN <<>>
    ELSE <<Str(x, y, size, Head(lines))>>
         \o TextLines(Tail(lines), x, y - step, size, step)

----------------------------------------------------------------------------
(* Image resources                                                         *)

UPLOAD_BASE == "/data/uploads"
STATIC_DIR == "/static/assets/img"

\* os.path.join(a, b)
PathJoin(a, b) == a \o "/" \o b

\* os.path.isfile(path)
isfile(path) == path \in DOMAIN files

\* the mutated lookup: a static file stands in for the missing upload
_resolve_imageWithFallback(slug, filename) ==
    LET path == PathJoin(PathJoin(UPLOAD_BASE, slug), filename)
        fallback == PathJoin(STATIC_DIR, "logo.png")
    IN  IF path \in DOMAIN files THEN path
        ELSE IF fallback \in DOMAIN files THEN fallback ELSE ""
\* _resolve_image(slug, filename): the uploaded file's path, "" for None
_resolve_image(slug, filename) ==
    LET path == PathJoin(PathJoin(UPLOAD_BASE, slug), filename)
    IN  IF isfile(path) THEN path ELSE ""

\* the mutated order: the PNG before the SVG
LogoExtsPngFirst == <<"png", "svg", "jpg", "jpeg", "webp">>
LogoExts == <<"svg", "png", "jpg", "jpeg", "webp">>
StaticNames == <<"logo.svg", "logo.png", "spd-logo.svg", "spd-logo.png">>

UploadLogo(slug, i) == PathJoin(PathJoin(UPLOAD_BASE, slug), "logo." \o LogoExts[i])
StaticLogo(i) == PathJoin(STATIC_DIR, StaticNames[i])

\* the first path of the sequence that is an existing file, "" if none is
FirstExisting(paths) ==
    IF \E i \in 1..Len(paths) : isfile(paths[i])
    THEN paths[CHOOSE i \in 1..Len(paths) :
                   /\ isfile(paths[i])
                   /\ \A j \in 1..(i - 1) : ~isfile(paths[j])]
    ELSE ""

\* _find_logo(slug, config_path): config path -> uploads -> static fallback
_find_logo(slug, config_path) ==
    IF config_path # "" /\ isfile(config_path)
    THEN config_path
    ELSE FirstExisting([i \in 1..Len(LogoExts) |-> UploadLogo(slug, i)]
                       \o [i \in 1..Len(StaticNames) |-> StaticLogo(i)])

\* the mutated loader: a reader whatever the file holds
_load_image_readerOfAnything(filepath) == filepath
\* _load_image_reader(filepath): a reader on the file, "" for None when the
\* decoder (cairosvg for .svg, ImageReader for the rest) raises
_load_image_reader(filepath) ==
    IF files[filepath] = "corrupt" THEN "" ELSE filepath

\* c.drawImage(path, ..) raises when the file cannot be opened as an image
\* or cannot be drawn (mask="auto" on an image mode reportlab cannot handle)
DrawPathRaises(path) == files[path] \in {"corrupt", "undrawable"}
\* c.drawImage(reader, ..) of a reader that was opened
DrawReaderRaises(reader) == files[reader] = "undrawable"

----------------------------------------------------------------------------
(* The file systems a call is run against                                  *)

Slug == "jane"
Upload(name) == PathJoin(PathJoin(UPLOAD_BASE, Slug), name)
PortraitJpg == Upload("portrait.jpg")
CustomPortrait == Upload("portrait-2026.png")
CustomLogo == Upload("brand.png")

\* the file system with the given good, corrupt and undrawable image files
Fs(ok, corrupt, undrawable) ==
    [p \in ok \cup corrupt \cup undrawable |->
        IF p \in corrupt THEN "corrupt"
        ELSE IF p \in undrawable THEN "undrawable" ELSE "ok"]

\* an uploaded portrait and an uploaded PNG logo
StandardFiles == Fs({PortraitJpg, UploadLogo(Slug, 2)}, {}, {})

FileSystems ==
    { Fs({}, {}, {}),
      StandardFiles,
      Fs({CustomPortrait, CustomLogo}, {}, {}),
      Fs({CustomPortrait, PortraitJpg, CustomLogo, UploadLogo(Slug, 2),
          StaticLogo(4)}, {}, {}),
      Fs({UploadLogo(Slug, 1), UploadLogo(Slug, 2)}, {}, {}),
      Fs({UploadLogo(Slug, 5), StaticLogo(1)}, {}, {}),
      Fs({StaticLogo(2), StaticLogo(3)}, {}, {}),
      Fs({UploadLogo(Slug, 2)}, {PortraitJpg}, {}),
      Fs({UploadLogo(Slug, 2)}, {}, {PortraitJpg}),
      Fs({PortraitJpg, UploadLogo(Slug, 2)}, {UploadLogo(Slug, 1)}, {}),
      Fs({PortraitJpg}, {}, {UploadLogo(Slug, 2)}),
      Fs({PortraitJpg}, {CustomLogo}, {CustomPortrait}) }
    \cup { Fs({UploadLogo(Slug, i)}, {}, {}) : i \in 1..Len(LogoExts) }
    \cup { Fs({StaticLogo(i)}, {}, {}) : i \in 1..Len(StaticNames) }

----------------------------------------------------------------------------
(* The configs of a call: FlyerConfig, with the slug                       *)

\* the module's strings are ASCII: U2022 stands for the bullet character
\* U+2022 and U2026 for the ellipsis U+2026, U2013 for the dash U+2013
U2022 == "@"
U2026 == "~"
U2013 == "-"

\* the most topics and the most links a config holds
MaxTopics == 8
MaxLinks == 6

\* a topic is a dict with a title and, mostly, a color
TopicAt(i) ==
    IF i % 3 = 1 THEN [title |-> "Verkehr", color |-> "#E3000F"]
    ELSE IF i % 3 = 2 THEN [title |-> "Wohnen"]
    ELSE [title |-> "Klima", color |-> "#0A0"]

TopicLists ==
    { [i \in 1..n |-> TopicAt(i)] : n \in {0, 1, 3, MaxTopics} }
    \cup { << TopicAt(1), [title |-> "Bildung", color |-> "#12345G"], TopicAt(3) >>,
           << [color |-> "#00AA00"] >> }

\* the most bytes a QR code holds at error correction M (version 40, byte mode)
QrByteCapacity == 2331

ShortUrl == "https://example.org/jane"
\* a URL of one byte more than a QR code holds
LongUrl ==
    LET prefix == "https://example.org/"
    IN  prefix \o Repeat("a", QrByteCapacity + 1 - Len(prefix))

\* a link is a dict with a label and a url, either of which may be missing
LinkAt(i) ==
    IF i % 3 = 1 THEN [label |-> "Programm", url |-> "https://example.org/programm"]
    ELSE IF i % 3 = 2 THEN [url |-> "http://example.org/termine"]
    ELSE [label |-> "Spenden fuer den Wahlkampf", url |-> "https://example.org/s"]

LinkLists ==
    { [i \in 1..n |-> LinkAt(i)] : n \in {0, 1, 3, MaxLinks} }
    \cup { << [label |-> "Leer", url |-> ""], [label |-> "Ohne"] >>,
           << LinkAt(1), [label |-> "Leer", url |-> ""], LinkAt(2), [label |-> "Ohne"] >>,
           << LinkAt(1), [label |-> "Lang", url |-> LongUrl] >> }

BulletText ==
    "Unser Programm:\n- Mehr Radwege\n\n* Bezahlbares Wohnen\n"
    \o U2022 \o " Gute Schulen\n-- kein Punkt\n  Machen Sie mit  "

\* FlyerConfig(): every field at its default
DefaultConfig ==
    [slug |-> Slug,
     candidate_name |-> "", party |-> "", tagline |-> "", election_date |-> "",
     headline |-> "", intro_text |-> "", cta_text |-> "", cta_sub |-> "",
     website_url |-> "", extra_text |-> "",
     show_portrait |-> TRUE, show_logo |-> TRUE, show_qr |-> TRUE,
     show_headline |-> TRUE, show_intro |-> TRUE, show_cta |-> TRUE,
     show_election_date |-> TRUE, show_tagline |-> TRUE,
     show_website_url |-> TRUE, show_topics |-> TRUE, show_links |-> TRUE,
     topics |-> <<>>, links |-> <<>>,
     page_size |-> "a4", orientation |-> "portrait", theme_color |-> "#1E6FB9",
     portrait_path |-> "", logo_path |-> ""]

\* a config with every content field filled
FullConfig ==
    [DefaultConfig EXCEPT
        !.candidate_name = "Jane Doe", !.party = "SPD",
        !.tagline = "Fuer unsere Stadt", !.election_date = "8. Maerz 2026",
        !.headline = LongHeadline, !.intro_text = LongIntro,
        !.cta_text = LongCta, !.cta_sub = "Scannen Sie den Code",
        !.website_url = ShortUrl, !.extra_text = BulletText,
        !.topics = [i \in 1..MaxTopics |-> TopicAt(i)],
        !.links = [i \in 1..MaxLinks |-> LinkAt(i)]]

\* a config with every content field filled, briefly
BriefConfig ==
    [DefaultConfig EXCEPT
        !.candidate_name = "Jane Doe", !.party = "SPD",
        !.tagline = "Fuer unsere Stadt", !.election_date = "8. Maerz 2026",
        !.headline = "Mitmachen!", !.intro_text = "Machen Sie mit beim Quiz!",
        !.cta_text = "Jetzt mitmachen!", !.cta_sub = "Scannen Sie den Code",
        !.website_url = ShortUrl, !.extra_text = "- Mehr Radwege\nBuy milk",
        !.topics = [i \in 1..3 |-> TopicAt(i)],
        !.links = [i \in 1..3 |-> LinkAt(i)]]

\* the full config with every toggle off
HiddenConfig ==
    [FullConfig EXCEPT
        !.show_portrait = FALSE, !.show_logo = FALSE, !.show_qr = FALSE,
        !.show_headline = FALSE, !.show_intro = FALSE, !.show_cta = FALSE,
        !.show_election_date = FALSE, !.show_tagline = FALSE,
        !.show_website_url = FALSE, !.show_topics = FALSE, !.show_links = FALSE]

\* the full config with the image paths resolved by the caller
ResolvedConfig ==
    [FullConfig EXCEPT !.portrait_path = CustomPortrait, !.logo_path = CustomLogo]

\* the values a field takes besides the ones of the configs above
Alt ==
    [candidate_name |-> {"", "Jane Doe"},
     party |-> {"", "SPD"},
     tagline |-> {"", "Fuer unsere Stadt"},
     election_date |-> {"", "8. Maerz 2026"},
     headline |-> {"", "Mitmachen!", LongHeadline},
     intro_text |-> {"", "Machen Sie mit beim Quiz!", LongIntro, LongestIntro},
     cta_text |-> {"", "Jetzt mitmachen!", LongCta},
     cta_sub |-> {"", "Scannen Sie den Code"},
     website_url |-> {"", ShortUrl, "http://example.org/a?next=https://b.example",
                      LongUrl},
     extra_text |-> {"", "  ", "Buy milk", BulletText,
                     Repeat("Zeile\n", 12),
                     "Unser Plan:\n" \o LongBullet,
                     "- -5 Grad im Winter\n-Radwege\n- * Schulen"},
     show_portrait |-> BOOLEAN, show_logo |-> BOOLEAN, show_qr |-> BOOLEAN,
     show_headline |-> BOOLEAN, show_intro |-> BOOLEAN, show_cta |-> BOOLEAN,
     show_election_date |-> BOOLEAN, show_tagline |-> BOOLEAN,
     show_website_url |-> BOOLEAN, show_topics |-> BOOLEAN,
     show_links |-> BOOLEAN,
     topics |-> TopicLists,
     links |-> LinkLists,
     theme_color |-> {"#1E6FB9", "#GGGGGG", "#FFF", "E3000F", ""},
     portrait_path |-> {"", CustomPortrait},
     logo_path |-> {"", CustomLogo}]

\* base and the configs that differ from it in one field
Deviations(base) ==
    {base} \cup UNION { { [base EXCEPT ![f] = v] : v \in Alt[f] } : f \in DOMAIN Alt }

PageSizeKeys == {"a4", "a5", "a6", "letter"}
Orientations == {"portrait", "landscape"}

OnPage(cfg, page_size, orientation) ==
    [cfg EXCEPT !.page_size = page_size, !.orientation = orientation]

Configs ==
    { OnPage(cfg, ps, o) :
        cfg \in UNION { Deviations(base) :
                          base \in {DefaultConfig, BriefConfig, FullConfig,
                                    HiddenConfig} },
        ps \in PageSizeKeys, o \in Orientations }

\* the calls: every config on the standard file system, and the base configs
\* on every file system
Runs ==
    { [config |-> cfg, files |-> StandardFiles] : cfg \in Configs }
    \cup { [config |-> OnPage(cfg, ps, o), files |-> fs] :
             cfg \in {DefaultConfig, FullConfig, ResolvedConfig},
             ps \in PageSizeKeys, o \in Orientations, fs \in FileSystems }

NoDoc == [title |-> "", created |-> 0, pagesize |-> <<0, 0>>]
NoResult == [status |-> "none"]

\* a call on a fresh canvas
Begin ==
    /\ pc = "start"
    /\ page_w = 0
    /\ page_h = 0
    /\ scale = [n |-> 0, d |-> 1]
    /\ theme_rgb = <<0, 0, 0>>
    /\ cursor_y = 0
    /\ ops = <<>>
    /\ order = <<>>
    /\ gstate = 0
    /\ doc = NoDoc
    /\ result = [status |-> "running"]

Init ==
    /\ \E run \in Runs :
        /\ config = run.config
        /\ files = run.files
    /\ Begin
    /\ now = 0
    /\ previous = NoResult

----------------------------------------------------------------------------
(* generate_flyer_pdf, lines 187-207: page size, canvas, theme, scale      *)

\* a block's common bookkeeping: the block drew new_ops, left the cursor at
\* new_cursor and the graphics-state stack at depth new_gstate
Draw(block, new_ops, new_cursor, new_gstate, next_pc) ==
    /\ ops' = Tagged(block, new_ops)
    /\ cursor_y' = new_cursor
    /\ gstate' = new_gstate
    /\ order' = IF new_ops # <<>> THEN Append(order, block) ELSE order
    /\ pc' = next_pc
    /\ UNCHANGED <<config, files, page_w, page_h, scale, theme_rgb, doc, result,
                   now, previous>>

\* the mutated bookkeeping: every block ends with a gap of 5 mm * scale
BlockWithGap(block, new_ops, new_cursor, next_pc) ==
    Draw(block, new_ops, new_cursor - Scaled(5 * mm), gstate, next_pc)
Block(block, new_ops, new_cursor, next_pc) ==
    Draw(block, new_ops, new_cursor, gstate, next_pc)

\* a block that raised after it drew new_ops: the exception leaves
\* generate_flyer_pdf
Raise(block, new_ops, error) ==
    /\ ops' = Tagged(block, new_ops)
    /\ order' = IF new_ops # <<>> THEN Append(order, block) ELSE order
    /\ pc' = "raised"
    /\ result' = [status |-> "raised", error |-> error]
    /\ UNCHANGED <<config, files, page_w, page_h, scale, theme_rgb, cursor_y,
                   gstate, doc, now, previous>>

Setup ==
    /\ pc = "start"
    /\ LET wh == PageSize(config)
           s == ScaleOf(wh)
       IN  /\ scale' = s
           /\ page_w' = wh[1] * 1440 * s.d
           /\ page_h' = wh[2] * 1440 * s.d
    \* canvas.Canvas(buf, pagesize=(page_w, page_h)); c.setTitle(..)
    /\ doc' = [title |-> "Flyer " \o U2013 \o " " \o config.candidate_name,
               created |-> now,
               pagesize |-> <<page_w', page_h'>>]
    /\ IF HexRaises(config.theme_color)
       THEN /\ pc' = "raised"
            /\ result' = [status |-> "raised", error |-> "ValueError"]
            /\ UNCHANGED theme_rgb
       ELSE /\ pc' = "top_bars"
            /\ theme_rgb' = _hex_to_rgb(config.theme_color)
            /\ UNCHANGED result
    /\ UNCHANGED <<config, files, cursor_y, ops, order, gstate, now, previous>>

(* lines 209-218: the two top accent bars, and the cursor's first value    *)
TopBars ==
    /\ pc = "top_bars"
    /\ LET bar_h == Scaled(8 * mm)
       IN  Block("top_bars",
                 << Rect(0, page_h - bar_h, page_w, bar_h, "theme_color"),
                    Rect(0, page_h - bar_h - Tenths(15), page_w, Tenths(15),
                         "theme_dark") >>,
                 page_h - bar_h - 6 * mm,
                 "header")

----------------------------------------------------------------------------
(* lines 220-278: header geometry, portrait, candidate name, party line    *)

\* text_left: behind the portrait when it was drawn, else at the margin
TextLeftBehindPortrait(drawn, portrait_x, portrait_size) ==
    portrait_x + portrait_size + 5 * mm
TextLeft(drawn, portrait_x, portrait_size) ==
    IF drawn THEN portrait_x + portrait_size + 5 * mm ELSE margin

HeaderText ==
    /\ pc = "header"
    /\ LET header_top == cursor_y
           portrait_size == Scaled(32 * mm)
           portrait_x == margin
           portrait_y == header_top - portrait_size
           portrait_file ==
               IF config.portrait_path # "" THEN config.portrait_path
               ELSE _resolve_image(config.slug, "portrait.jpg")
           \* the try block is entered
           tried == config.show_portrait /\ portrait_file # "" /\ isfile(portrait_file)
           image_ok == tried /\ ~DrawPathRaises(portrait_file)
           cx == portrait_x + portrait_size \div 2
           cy == portrait_y + portrait_size \div 2
           r == portrait_size \div 2
           text_left == TextLeft(image_ok, portrait_x, portrait_size)
           name_y == header_top - Scaled(10 * mm)
           name_size == FontSize(22, 12)
           \* (name_size + 3) * scale, floored to a unit
           party_y == name_y - ((name_size + 3 * pt) * scale.n) \div scale.d
           party_size == FontSize(11, 7)
           portrait_ops ==
               IF ~tried THEN <<>>
               ELSE << Op("saveState"), Circle("circle", cx, cy, r + pt),
                       Circle("clipPath", cx, cy, r) >>
                    \o IF image_ok
                       THEN << Img(portrait_x, portrait_y, portrait_size,
                                   portrait_size, portrait_file),
                               Op("restoreState") >>
                       ELSE <<>>
       IN  Draw("header",
                portrait_ops
                \o << Str(text_left, name_y, name_size, config.candidate_name) >>
                \o IF config.party # ""
                   THEN << Str(text_left, party_y, party_size, config.party) >>
                   ELSE <<>>,
                cursor_y,
                IF tried /\ ~image_ok THEN gstate + 1 ELSE gstate,
                "logo")

(* lines 280-298: logo, and the cursor below the header                    *)
Logo ==
    /\ pc = "logo"
    /\ LET header_top == cursor_y
           header_h == Scaled(38 * mm)
           logo_file == IF config.show_logo
                        THEN _find_logo(config.slug, config.logo_path) ELSE ""
           reader == IF logo_file # "" THEN _load_image_reader(logo_file) ELSE ""
           logo_size == Scaled(22 * mm)
           logo_x == page_w - margin - logo_size
           logo_y == header_top - logo_size
       IN  Block("logo",
                 IF reader # "" /\ ~DrawReaderRaises(reader)
                 THEN << Img(logo_x, logo_y, logo_size, logo_size, reader) >>
                 ELSE <<>>,
                 header_top - header_h,
                 "badge")

----------------------------------------------------------------------------
(* The text blocks between header and QR panel                             *)

(* lines 300-316: election date badge                                      *)
Badge ==
    /\ pc = "badge"
    /\ LET badge_h == Scaled(8 * mm)
           badge_text == "Wahl am " \o config.election_date
           badge_font_size == FontSize(10, 7)
           badge_x == margin
           badge_y == cursor_y
           entered == config.show_election_date /\ config.election_date # ""
       IN  Block("badge",
                 IF entered
                 THEN << TextRect(badge_x, badge_y, 8 * mm, badge_h, badge_text),
                         Str(badge_x + 4 * mm, badge_y + Scaled(Tenths(22)),
                             badge_font_size, badge_text) >>
                 ELSE <<>>,
                 IF entered THEN cursor_y - (badge_h + Scaled(5 * mm)) ELSE cursor_y,
                 "tagline")

(* lines 318-325: tagline                                                  *)
TaglineIgnoresToggle ==
    /\ pc = "tagline"
    /\ LET tag_size == FontSize(10, 7)
           entered == config.tagline # ""
       IN  Block("tagline",
                 IF entered THEN << Str(margin, cursor_y, tag_size, config.tagline) >>
                 ELSE <<>>,
                 IF entered THEN cursor_y - (tag_size + Scaled(4 * mm)) ELSE cursor_y,
                 "headline")
Tagline ==
    /\ pc = "tagline"
    /\ LET tag_size == FontSize(10, 7)
           entered == config.show_tagline /\ config.tagline # ""
       IN  Block("tagline",
                 IF entered THEN << Str(margin, cursor_y, tag_size, config.tagline) >>
                 ELSE <<>>,
                 IF entered THEN cursor_y - (tag_size + Scaled(4 * mm)) ELSE cursor_y,
                 "headline")

(* lines 327-338: headline, wrapped, at most 3 lines                       *)
Headline ==
    /\ pc = "headline"
    /\ LET hl_size == FontSize(22, 12)
           max_chars == MaxChars(content_w, hl_size, 1, 2)
           lines == Take(wrap(config.headline, max_chars), 3)
           entered == config.show_headline /\ config.headline # ""
       IN  Block("headline",
                 IF entered
                 THEN TextLines(lines, margin, cursor_y, hl_size, hl_size + 2 * pt)
                 ELSE <<>>,
                 IF entered
                 THEN cursor_y - Len(lines) * (hl_size + 2 * pt) - Scaled(2 * mm)
                 ELSE cursor_y,
                 "intro")

(* lines 340-351: intro text, wrapped, at most 5 lines                     *)
Intro ==
    /\ pc = "intro"
    /\ LET intro_size == FontSize(10, 7)
           max_chars == MaxChars(content_w, intro_size, 9, 20)
           lines == Take(wrap(config.intro_text, max_chars), 5)
           entered == config.show_intro /\ config.intro_text # ""
       IN  Block("intro",
                 IF entered
                 THEN TextLines(lines, margin, cursor_y, intro_size, intro_size + 2 * pt)
                 ELSE <<>>,
                 IF entered
                 THEN cursor_y - Len(lines) * (intro_size + 2 * pt) - Scaled(3 * mm)
                 ELSE cursor_y,
                 "qr")

----------------------------------------------------------------------------
(* The code-image generator                                                *)

\* _make_qr_image(url): qr.make(fit=True) raises DataOverflowError when no
\* version holds the payload
QrEncodable(payload) == Len(payload) <= QrByteCapacity

bullet_texts == << "Quiz spielen & Wissen testen",
                   "Zu lokalen Themen abstimmen",
                   "Persoenliche Nachricht hinterlassen" >>

\* if config.show_qr and config.website_url
QrEnteredIgnoresToggle(cfg) == cfg.website_url # ""
QrEntered(cfg) == cfg.show_qr /\ cfg.website_url # ""

\* box_h: padding + QR + gap + CTA label + bullets + padding
BoxHeightWithoutBullets(padding, qr, gap, label, bullets, line_h) ==
    padding + qr + gap + label + 4 * pt + padding
BoxHeight(padding, qr, gap, label, bullets, line_h) ==
    padding + qr + gap
    + label + 4 * pt
    + bullets * line_h
    + padding

(* lines 353-431: the QR centerpiece                                       *)
QrPanel ==
    /\ pc = "qr"
    /\ LET entered == QrEntered(config)
           qr_size == CappedMm(55)
           box_padding == Scaled(6 * mm)
           cta_label_size == FontSize(13, 9)
           bullet_size == FontSize(9, 6)
           num_bullets == Len(bullet_texts)
           cta_gap == Scaled(4 * mm)
           bullet_line_h == bullet_size + 3 * pt
           box_h == BoxHeight(box_padding, qr_size, cta_gap, cta_label_size,
                              num_bullets, bullet_line_h)
           box_y == cursor_y - box_h
           panel == << Rect(margin, box_y, content_w, box_h, "panel"),
                       Rect(margin, box_y, Quarters(14), box_h, "stripe") >>
           qr_x == margin + (content_w - qr_size) \div 2
           qr_y == box_y + box_h - box_padding - qr_size
           label_y == qr_y - cta_gap - cta_label_size
           centre == margin + content_w \div 2
           bullets ==
               [i \in 1..(2 * num_bullets) |->
                   LET b == (i + 1) \div 2
                       bullet_y == label_y - 5 * pt - b * bullet_line_h
                   IN  IF i % 2 = 1
                       THEN BlockStr(centre, 0, bullet_y, bullet_size, "check")
                       ELSE BlockStr(centre, 4 * mm, bullet_y, bullet_size,
                                     bullet_texts[b])]
       IN  IF ~entered
           THEN Block("qr", <<>>, cursor_y, "topics")
           ELSE IF ~QrEncodable(config.website_url)
           THEN Raise("qr", panel, "DataOverflowError")
           ELSE Block("qr",
                      panel
                      \o << Qr(qr_x, qr_y, qr_size, qr_size, config.website_url),
                            Rect(qr_x - Quarters(6), qr_y - Quarters(6),
                                 qr_size + 3 * pt, qr_size + 3 * pt, "border"),
                            CStr(centre, label_y, cta_label_size,
                                 "Jetzt scannen & mitmachen!") >>
                      \o bullets,
                      box_y - Scaled(5 * mm),
                      "topics")

----------------------------------------------------------------------------
(* lines 433-465: topic tiles                                              *)

\* topic.get("color", config.theme_color)
TopicColor(topic) ==
    IF "color" \in DOMAIN topic THEN topic.color ELSE config.theme_color

\* topic.get("title", "")
TopicTitle(topic) == IF "title" \in DOMAIN topic THEN topic.title ELSE ""

\* the canvas operations of tile i (from 0) of the grid whose top is at top
TileInOneColumn(i, topic, top) ==
    LET tile_h == Scaled(9 * mm)
        tile_gap == 3 * mm
        tile_font == FontSize(9, 6)
        col_w == (content_w - tile_gap) \div 2
        tx == margin
        ty == top - i * (tile_h + tile_gap)
    IN  << Rect(tx, ty - tile_h, col_w, tile_h, "tile"),
           Rect(tx, ty - tile_h, 3 * pt, tile_h, "accent"),
           Str(tx + 4 * mm, ty - tile_h + Scaled(Tenths(25)), tile_font,
               TopicTitle(topic)) >>
Tile(i, topic, top) ==
    LET tile_h == Scaled(9 * mm)
        tile_gap == 3 * mm
        tile_font == FontSize(9, 6)
        col_w == (content_w - tile_gap) \div 2
        col == i % 2
        row == i \div 2
        tx == margin + col * (col_w + tile_gap)
        ty == top - row * (tile_h + tile_gap)
    IN  << Rect(tx, ty - tile_h, col_w, tile_h, "tile"),
           Rect(tx, ty - tile_h, 3 * pt, tile_h, "accent"),
           Str(tx + 4 * mm, ty - tile_h + Scaled(Tenths(25)), tile_font,
               TopicTitle(topic)) >>

RECURSIVE Tiles(_, _, _)
\* the tiles of topics[from..], up to the first whose colour raises
Tiles(topics, from, top) ==
    IF from > Len(topics) \/ HexRaises(TopicColor(topics[from])) THEN <<>>
    ELSE Tile(from - 1, topics[from], top) \o Tiles(topics, from + 1, top)

Topics ==
    /\ pc = "topics"
    /\ LET entered == config.show_topics /\ config.topics # <<>>
           shown == Take(config.topics, 6)
           tile_h == Scaled(9 * mm)
           tile_gap == 3 * mm
           total_rows == (Len(shown) + 1) \div 2
           raises == \E i \in 1..Len(shown) : HexRaises(TopicColor(shown[i]))
       IN  IF ~entered
           THEN Block("topics", <<>>, cursor_y, "extra")
           ELSE IF raises
           THEN Raise("topics", Tiles(shown, 1, cursor_y), "ValueError")
           ELSE Block("topics", Tiles(shown, 1, cursor_y),
                      cursor_y - (total_rows * (tile_h + tile_gap) + Scaled(3 * mm)),
                      "extra")

----------------------------------------------------------------------------
(* lines 467-505: free-form extra text, with bullet points                 *)

RECURSIVE rstrip(_, _)
rstrip(s, chars) ==
    IF Len(s) > 0 /\ SubSeq(s, Len(s), Len(s)) \in chars
    THEN rstrip(SubSeq(s, 1, Len(s) - 1), chars)
    ELSE s

Whitespace == {" ", "\n"}
\* str.strip()
strip(s) == rstrip(lstrip(s, Whitespace), Whitespace)

\* the index of the first line break at or after i, Len(s) + 1 if none
LineEnd(s, i) ==
    LET breaks == { j \in i..Len(s) : SubSeq(s, j, j) = "\n" }
    IN  IF breaks = {} THEN Max(i, Len(s) + 1)
        ELSE CHOOSE j \in breaks : \A k \in breaks : j <= k

RECURSIVE SplitFrom(_, _)
SplitFrom(s, i) ==
    IF i > Len(s) THEN <<>>
    ELSE LET e == LineEnd(s, i)
         IN  <<SubSeq(s, i, e - 1)>> \o SplitFrom(s, e + 1)

\* str.splitlines()
splitlines(s) == SplitFrom(s, 1)

\* str.startswith(prefix)
startswith(s, prefix) ==
    Len(s) >= Len(prefix) /\ SubSeq(s, 1, Len(prefix)) = prefix

\* raw_line.startswith(("- ", "* ", U2022 + " "))
IsBullet(raw_line) ==
    \E m \in {"- ", "* ", U2022 \o " "} : startswith(raw_line, m)

\* raw_line.lstrip("-*" + U2022 + " ").strip() for a bullet line
BulletBody(raw_line) ==
    IF IsBullet(raw_line)
    THEN strip(lstrip(raw_line, {"-", "*", U2022, " "}))
    ELSE raw_line

\* the display lines of one source line, from cursor y down
ExtraLine(raw_line, y, extra_size, line_h, max_chars) ==
    LET is_bullet == IsBullet(raw_line)
        wrapped == Take(wrap(BulletBody(raw_line), max_chars), 3)
    IN  [j \in 1..(IF is_bullet /\ wrapped # <<>> THEN Len(wrapped) + 1
                   ELSE Len(wrapped)) |->
            IF ~is_bullet
            THEN Str(margin, y - (j - 1) * line_h, extra_size, wrapped[j])
            ELSE IF j = 1
            THEN Str(margin, y, extra_size, U2022)
            ELSE Str(margin + 4 * mm, y - (j - 2) * line_h, extra_size,
                     wrapped[j - 1])]

\* how far one source line moves the cursor down
ExtraDrop(raw_line, line_h, max_chars) ==
    IF raw_line = "" THEN line_h \div 2
    ELSE Len(Take(wrap(BulletBody(raw_line), max_chars), 3)) * line_h

RECURSIVE ExtraLines(_, _, _, _, _)
\* for raw_line in raw_lines: the operations and the cursor after them
ExtraLines(raw_lines, y, extra_size, line_h, max_chars) ==
    IF raw_lines = <<>> THEN [ops |-> <<>>, y |-> y]
    ELSE LET raw_line == strip(Head(raw_lines))
             here == IF raw_line = "" THEN <<>>
                     ELSE ExtraLine(raw_line, y, extra_size, line_h, max_chars)
             rest == ExtraLines(Tail(raw_lines),
                                y - ExtraDrop(raw_line, line_h, max_chars),
                                extra_size, line_h, max_chars)
         IN  [ops |-> here \o rest.ops, y |-> rest.y]

ExtraText ==
    /\ pc = "extra"
    /\ LET entered == config.extra_text # "" /\ strip(config.extra_text) # ""
           extra_size == FontSize(9, 6)
           max_chars == MaxChars(content_w, extra_size, 9, 20)
           line_h == extra_size + Quarters(10)
           raw_lines == Take(splitlines(strip(config.extra_text)), 10)
           drawn == ExtraLines(raw_lines, cursor_y, extra_size, line_h, max_chars)
       IN  Block("extra",
                 IF entered THEN drawn.ops ELSE <<>>,
                 IF entered THEN drawn.y - Scaled(2 * mm) ELSE cursor_y,
                 "cta")

----------------------------------------------------------------------------
(* lines 507-541: the call-to-action panel                                 *)

\* if cta_y < 8 * mm: cta_y = 8 * mm
CtaYUnpinned(y) == y
CtaY(y) == IF y < 8 * mm THEN 8 * mm ELSE y

Cta ==
    /\ pc = "cta"
    /\ LET entered == config.show_cta /\ config.cta_text # ""
           cta_box_h == Scaled(16 * mm)
           cta_y == CtaY(cursor_y - cta_box_h)
           cta_size == FontSize(11, 8)
           max_chars == MaxChars(content_w - 8 * mm, cta_size, 1, 2)
           lines == Take(wrap(config.cta_text, max_chars), 2)
           text_y == cta_y + cta_box_h - Scaled(5 * mm)
           sub_size == FontSize(8, 6)
       IN  Block("cta",
                 IF entered
                 THEN << Rect(margin, cta_y, content_w, cta_box_h, "panel"),
                         Rect(margin, cta_y, 3 * pt, cta_box_h, "accent") >>
                      \o TextLines(lines, margin + 5 * mm, text_y, cta_size,
                                   cta_size + 2 * pt)
                      \o IF config.cta_sub # ""
                         THEN << Str(margin + 5 * mm,
                                     text_y - Len(lines) * (cta_size + 2 * pt) - pt,
                                     sub_size, config.cta_sub) >>
                         ELSE <<>>
                 ELSE <<>>,
                 IF entered THEN cta_y - Scaled(3 * mm) ELSE cursor_y,
                 "links")

----------------------------------------------------------------------------
(* lines 543-609: the grid of links with their code images                 *)

\* lnk.get("url"), "" for None
LinkUrl(lnk) == IF "url" \in DOMAIN lnk THEN lnk.url ELSE ""

\* lnk.get("label") or lnk.get("url", "")
LinkLabel(lnk) ==
    IF "label" \in DOMAIN lnk /\ lnk.label # "" THEN lnk.label ELSE LinkUrl(lnk)

\* [lnk for lnk in config.links if lnk.get("url")]
ValidLinksByKey(links) == SelectSeq(links, LAMBDA lnk : "url" \in DOMAIN lnk)
ValidLinks(links) == SelectSeq(links, LAMBDA lnk : LinkUrl(lnk) # "")

\* ' '.join(text.strip().split()), as chunks
NormChunks(text) ==
    LET chunks == ChunksFrom(strip(text), 1)
    IN  [i \in 1..Len(chunks) |-> IF IsSpace(chunks[i]) THEN " " ELSE chunks[i]]

RECURSIVE WithPlaceholder(_, _, _)
\* _wrap_chunks with max_lines = 1, when the text does not fit the line: drop
\* chunks from the end until the placeholder fits behind a word
WithPlaceholder(cur, cur_len, width) ==
    IF cur = <<>> THEN U2026
    ELSE IF ~IsSpace(cur[Len(cur)]) /\ cur_len + Len(U2026) <= width
    THEN Join(cur) \o U2026
    ELSE WithPlaceholder(SubSeq(cur, 1, Len(cur) - 1),
                         cur_len - Len(cur[Len(cur)]), width)

\* textwrap.shorten(text, width=width, placeholder=U2026)
shorten(text, width) ==
    LET chunks == NormChunks(text)
        f == FillLine(chunks, <<>>, 0, width)
        long == f.rest # <<>> /\ Len(Head(f.rest)) > width
        space_left == IF width < 1 THEN 1 ELSE width - f.len
        word == Head(f.rest)
        cur1 == IF long THEN Append(f.cur, SubSeq(word, 1, space_left)) ELSE f.cur
        len1 == IF long THEN f.len + space_left ELSE f.len
        rest1 == IF long
                 THEN <<SubSeq(word, space_left + 1, Len(word))>> \o Tail(f.rest)
                 ELSE f.rest
        trailing == cur1 # <<>> /\ IsSpace(cur1[Len(cur1)])
        cur2 == IF trailing THEN SubSeq(cur1, 1, Len(cur1) - 1) ELSE cur1
        len2 == IF trailing THEN len1 - Len(cur1[Len(cur1)]) ELSE len1
        last == rest1 = <<>> \/ (Len(rest1) = 1 /\ IsSpace(rest1[1]))
    IN  IF chunks = <<>> THEN ""
        ELSE IF last /\ len2 <= width THEN Join(cur2)
        ELSE WithPlaceholder(cur2, len2, width)

\* the operations of the item at column col_idx of a row whose first item is
\* at start_x and whose code images have their top at y
LinkItem(lnk, col_idx, start_x, y) ==
    LET qr_item_size == CappedMm(22)
        label_font_size == FontSize(6, 5)
        item_gap == Scaled(4 * mm)
        item_w == qr_item_size
        label_line_h == label_font_size + 2 * pt
        ix == start_x + col_idx * (item_w + item_gap)
        iy == y - qr_item_size
        max_label_chars == Max(1, MaxChars(item_w, label_font_size, 9, 20))
        label_text == shorten(LinkLabel(lnk), max_label_chars)
    IN  (IF QrEncodable(lnk.url)
         THEN << Rect(ix - Quarters(3), iy - Quarters(3), item_w + Quarters(6),
                      qr_item_size + Quarters(6), "border"),
                 Qr(ix, iy, item_w, qr_item_size, lnk.url) >>
         ELSE <<>>)
        \o << CStr(ix + item_w \div 2, iy - label_line_h, label_font_size,
                   label_text) >>

RECURSIVE LinkRow(_, _, _, _)
\* for col_idx, lnk in enumerate(row_links), from item col_idx + 1 on
LinkRow(row_links, col_idx, start_x, y) ==
    IF col_idx >= Len(row_links) THEN <<>>
    ELSE LinkItem(row_links[col_idx + 1], col_idx, start_x, y)
         \o LinkRow(row_links, col_idx + 1, start_x, y)

RECURSIVE LinkRows(_, _, _, _, _)
\* for row_idx in range(rows_needed), from row row_idx on
LinkRows(valid_links, row_idx, rows_needed, max_items_per_row, y) ==
    IF row_idx >= rows_needed THEN <<>>
    ELSE LET qr_item_size == CappedMm(22)
             item_gap == Scaled(4 * mm)
             item_w == qr_item_size
             label_line_h == FontSize(6, 5) + 2 * pt
             row_links == SubSeq(valid_links, row_idx * max_items_per_row + 1,
                                 Min((row_idx + 1) * max_items_per_row,
                                     Len(valid_links)))
             n == Len(row_links)
             row_total_w == n * item_w + (n - 1) * item_gap
             start_x == margin + (content_w - row_total_w) \div 2
         IN  LinkRow(row_links, 0, start_x, y)
             \o LinkRows(valid_links, row_idx + 1, rows_needed, max_items_per_row,
                         y - (qr_item_size + label_line_h + Scaled(2 * mm)))

\* if cursor_y - section_total_h > 8 * mm
FitsAlways(y, section_total_h) == TRUE
Fits(y, section_total_h) == y - section_total_h > 8 * mm

Links ==
    /\ pc = "links"
    /\ LET valid_links == ValidLinks(config.links)
           qr_item_size == CappedMm(22)
           label_font_size == FontSize(6, 5)
           item_gap == Scaled(4 * mm)
           num_links == Len(valid_links)
           item_w == qr_item_size
           max_items_per_row ==
               Max(1, (content_w + item_gap) \div (item_w + item_gap))
           rows_needed == (num_links + max_items_per_row - 1) \div max_items_per_row
           section_font_size == FontSize(7, 5)
           label_line_h == label_font_size + 2 * pt
           row_h == qr_item_size + label_line_h + 2 * pt
           section_total_h == section_font_size + Scaled(3 * mm)
                              + rows_needed * (row_h + Scaled(2 * mm))
           entered == /\ config.show_links
                      /\ config.links # <<>>
                      /\ valid_links # <<>>
                      /\ Fits(cursor_y, section_total_h)
           first_row_y == cursor_y - (section_font_size + Scaled(2 * mm))
       IN  Block("links",
                 IF entered
                 THEN << Str(margin, cursor_y, section_font_size, "Weitere Links") >>
                      \o LinkRows(valid_links, 0, rows_needed, max_items_per_row,
                                  first_row_y)
                 ELSE <<>>,
                 IF entered
                 THEN first_row_y
                      - rows_needed * (qr_item_size + label_line_h + Scaled(2 * mm))
                      - Scaled(2 * mm)
                 ELSE cursor_y,
                 "url")

----------------------------------------------------------------------------
(* lines 611-629: website URL text, bottom accent bar, the document        *)

RECURSIVE replace(_, _, _)
\* str.replace(old, new): every occurrence, from the left
replace(s, old, new) ==
    IF Len(s) < Len(old) THEN s
    ELSE IF startswith(s, old)
    THEN new \o replace(SubSeq(s, Len(old) + 1, Len(s)), old, new)
    ELSE SubSeq(s, 1, 1) \o replace(SubSeq(s, 2, Len(s)), old, new)

\* config.website_url.replace("https://", "").replace("http://", "")
DisplayUrl(url) == replace(replace(url, "https://", ""), "http://", "")

UrlText ==
    /\ pc = "url"
    /\ LET url_size == FontSize(8, 6)
           entered == config.show_website_url /\ config.website_url # ""
       IN  Block("url",
                 IF entered
                 THEN << CStr(page_w \div 2, 5 * mm, url_size,
                              DisplayUrl(config.website_url)) >>
                 ELSE <<>>,
                 cursor_y,
                 "bottom_bar")

BottomBar ==
    /\ pc = "bottom_bar"
    /\ Block("bottom_bar", << Rect(0, 0, page_w, 3 * mm, "theme_color") >>,
             cursor_y, "save")

\* c.showPage(); c.save(); return buf.read(): a document of one page
Save ==
    /\ pc = "save"
    /\ pc' = "done"
    /\ result' = [status |-> "returned",
                  info |-> doc,
                  pages |-> << [mediabox |-> doc.pagesize, blocks |-> order] >>]
    /\ UNCHANGED <<config, files, page_w, page_h, scale, theme_rgb, cursor_y, ops,
                   order, gstate, doc, now, previous>>

Next ==
    \/ Setup
    \/ TopBars
    \/ HeaderText
    \/ Logo
    \/ Badge
    \/ Tagline
    \/ Headline
    \/ Intro
    \/ QrPanel
    \/ Topics
    \/ ExtraText
    \/ Cta
    \/ Links
    \/ UrlText
    \/ BottomBar
    \/ Save

Spec == Init /\ [][Next]_vars


----------------------------------------------------------------------------
(* Two calls with the same arguments on the same files.  The canvas takes  *)
(* the time of its creation into the document (canvas.Canvas is called     *)
(* without invariant=1), so the wall clock is part of the state.           *)

\* the most seconds that pass between the two calls
MaxClock == 2

\* a second passes after a call has returned
Tick ==
    /\ pc = "done"
    /\ now < MaxClock
    /\ now' = now + 1
    /\ UNCHANGED <<config, files, pc, page_w, page_h, scale, theme_rgb, cursor_y,
                   ops, order, gstate, doc, result, previous>>

\* the caller keeps what the first call returned and calls again
CallAgain ==
    /\ pc = "done"
    /\ previous = NoResult
    /\ previous' = result
    /\ pc' = "start"
    /\ page_w' = 0
    /\ page_h' = 0
    /\ scale' = [n |-> 0, d |-> 1]
    /\ theme_rgb' = <<0, 0, 0>>
    /\ cursor_y' = 0
    /\ ops' = <<>>
    /\ order' = <<>>
    /\ gstate' = 0
    /\ doc' = NoDoc
    /\ result' = [status |-> "running"]
    /\ UNCHANGED <<config, files, now>>

InitTwice ==
    /\ \E cfg \in {DefaultConfig, FullConfig, HiddenConfig},
          ps \in PageSizeKeys, o \in Orientations :
        config = OnPage(cfg, ps, o)
    /\ files = StandardFiles
    /\ Begin
    /\ now = 0
    /\ previous = NoResult

NextTwice ==
    \/ Next
    \/ Tick
    \/ CallAgain

SpecTwice == InitTwice /\ [][NextTwice]_vars

----------------------------------------------------------------------------
(* One call of textwrap.wrap(text, width=max_chars), as lines 334, 347,    *)
(* 487 and 528 make it.  config holds the call's arguments, result what    *)
(* the call returned.                                                      *)

\* the most words of a wrapped text, the most characters of a word, and the
\* widest line
MaxWrapWords == 3
MaxWordLen == 4
MaxWidth == 5

Letters == <<"a", "b", "c">>

\* the k-th word of a text: len times the k-th letter
WordAt(k, len) == Repeat(Letters[((k - 1) % Len(Letters)) + 1], len)

RECURSIVE JoinWords(_, _, _)
\* sep.join(words of the lengths lens), from word k on
JoinWords(lens, k, sep) ==
    IF k > Len(lens) THEN ""
    ELSE WordAt(k, lens[k])
         \o (IF k < Len(lens) THEN sep ELSE "")
         \o JoinWords(lens, k + 1, sep)

\* the texts: words separated by one space or by two, with or without a
\* space behind the last word
WrapTexts ==
    { JoinWords(lens, 1, sep) \o tail :
        lens \in UNION { [1..n -> 1..MaxWordLen] : n \in 1..MaxWrapWords },
        sep \in {" ", "  "},
        tail \in {"", " "} }

InitWrap ==
    /\ \E text \in WrapTexts, width \in 1..MaxWidth :
        config = [text |-> text, width |-> width]
    /\ files = StandardFiles
    /\ Begin
    /\ now = 0
    /\ previous = NoResult

\* lines = textwrap.wrap(text, width=max_chars)
CallWrap ==
    /\ pc = "start"
    /\ pc' = "wrapped"
    /\ result' = [status |-> "returned", lines |-> wrap(config.text, config.width)]
    /\ UNCHANGED <<config, files, page_w, page_h, scale, theme_rgb, cursor_y, ops,
                   order, gstate, doc, now, previous>>

NextWrap == CallWrap

SpecWrap == InitWrap /\ [][NextWrap]_vars

----------------------------------------------------------------------------
(* Logo uploads and the logo search.  upload_logo (src/api/main.py) writes *)
(* into the tenant's upload directory, _find_logo reads it.  config holds  *)
(* the arguments of _find_logo, order the names of the files the uploads   *)
(* wrote, oldest first, result the last response.                          *)

\* the most uploads that are stored
MaxUploads == 2

\* the tenants get_candidate knows
Candidates == {Slug}

\* the content types an upload is sent with
ContentTypes ==
    {"image/svg+xml", "image/png", "image/webp", "image/jpeg", "image/gif"}

\* the paths _find_logo looks at
LogoFiles ==
    {CustomLogo}
    \cup { UploadLogo(Slug, i) : i \in 1..Len(LogoExts) }
    \cup { StaticLogo(i) : i \in 1..Len(StaticNames) }

InitLogo ==
    /\ \E present \in SUBSET LogoFiles, config_path \in {"", CustomLogo} :
        /\ files = Fs(present, {}, {})
        /\ config = [slug |-> Slug, logo_path |-> config_path]
    /\ Begin
    /\ now = 0
    /\ previous = NoResult

\* POST /api/{slug}/admin/upload/logo
upload_logo ==
    /\ pc = "start"
    /\ Len(order) < MaxUploads
    /\ \E slug \in {Slug, "nobody"}, content_type \in ContentTypes,
          too_large \in BOOLEAN :
        IF slug \notin Candidates
        THEN /\ result' = [status |-> "raised", error |-> "HTTPException 404"]
             /\ UNCHANGED <<files, order>>
        ELSE IF content_type \notin {"image/svg+xml", "image/png", "image/webp",
                                     "image/jpeg"}
                \/ too_large
        THEN /\ result' = [status |-> "raised", error |-> "HTTPException 400"]
             /\ UNCHANGED <<files, order>>
        ELSE LET fname == IF content_type = "image/svg+xml"
                          THEN "logo.svg" ELSE "logo.png"
                 path == PathJoin(PathJoin(UPLOAD_BASE, slug), fname)
             IN  /\ files' = [p \in DOMAIN files \cup {path} |->
                                 IF p = path THEN "ok" ELSE files[p]]
                 /\ order' = Append(order, fname)
                 /\ result' = [status |-> "returned", file |-> fname]
    /\ UNCHANGED <<config, pc, page_w, page_h, scale, theme_rgb, cursor_y, ops,
                   gstate, doc, now, previous>>

\* logo_file = _find_logo(slug, config.logo_path)
FindLogo ==
    /\ pc = "start"
    /\ pc' = "found"
    /\ result' = [status |-> "returned",
                  path |-> _find_logo(config.slug, config.logo_path)]
    /\ UNCHANGED <<config, files, page_w, page_h, scale, theme_rgb, cursor_y, ops,
                   order, gstate, doc, now, previous>>

NextLogo ==
    \/ upload_logo
    \/ FindLogo

SpecLogo == InitLogo /\ [][NextLogo]_vars

----------------------------------------------------------------------------
(* Two calls that run at the same time, on two threads.  cursor, canvas,   *)
(* buffer and geometry are locals of generate_flyer_pdf: every call has    *)
(* its own.  The variables of a single call hold the locals of the call    *)
(* that runs; previous holds the locals of the call that waits, the name   *)
(* of the call that runs, the files as they were before any call, and what *)
(* call a went through when it ran alone before the two calls were begun.  *)
(* The clock stands still.                                                 *)

\* the locals of the call that runs
Frame ==
    [config |-> config, pc |-> pc, page_w |-> page_w, page_h |-> page_h,
     scale |-> scale, theme_rgb |-> theme_rgb, cursor_y |-> cursor_y,
     ops |-> ops, order |-> order, gstate |-> gstate, doc |-> doc,
     result |-> result]

\* the locals of a call of cfg that has not made a step
NewFrame(cfg) ==
    [config |-> cfg, pc |-> "start", page_w |-> 0, page_h |-> 0,
     scale |-> [n |-> 0, d |-> 1], theme_rgb |-> <<0, 0, 0>>, cursor_y |-> 0,
     ops |-> <<>>, order |-> <<>>, gstate |-> 0, doc |-> NoDoc,
     result |-> [status |-> "running"]]

\* the thread takes up the call of the locals frame
Resume(frame) ==
    /\ config' = frame.config
    /\ pc' = frame.pc
    /\ page_w' = frame.page_w
    /\ page_h' = frame.page_h
    /\ scale' = frame.scale
    /\ theme_rgb' = frame.theme_rgb
    /\ cursor_y' = frame.cursor_y
    /\ ops' = frame.ops
    /\ order' = frame.order
    /\ gstate' = frame.gstate
    /\ doc' = frame.doc
    /\ result' = frame.result

\* the configs of the two calls: tenants jane and john, three page formats
PairConfigs ==
    { OnPage(FullConfig, "a4", "portrait"),
      OnPage(BriefConfig, "a6", "landscape"),
      OnPage(HiddenConfig, "a5", "portrait"),
      [OnPage(BriefConfig, "a5", "landscape") EXCEPT !.slug = "john"],
      [OnPage(DefaultConfig, "a4", "landscape") EXCEPT
          !.website_url = LongUrl, !.show_qr = TRUE] }

InitPair ==
    /\ \E cfg_a \in PairConfigs, cfg_b \in PairConfigs :
        /\ config = cfg_a
        /\ previous = [phase |-> "alone", running |-> "a",
                       waiting |-> NewFrame(cfg_b), files |-> StandardFiles,
                       alone |-> <<>>]
    /\ files = StandardFiles
    /\ Begin
    /\ now = 0

\* the observer notes where the call that runs alone has got to
Note ==
    /\ previous.phase = "alone"
    /\ pc \notin DOMAIN previous.alone
    /\ previous' = [previous EXCEPT !.alone = (pc :> Frame) @@ previous.alone]
    /\ UNCHANGED <<config, files, pc, page_w, page_h, scale, theme_rgb, cursor_y,
                   ops, order, gstate, doc, result, now>>

\* the call that runs makes its next step
Step ==
    /\ previous.phase = "alone" => pc \in DOMAIN previous.alone
    /\ Next

\* the call that ran alone has ended; call a is made again, and call b with it
BeginPair ==
    /\ previous.phase = "alone"
    /\ pc \in {"done", "raised"}
    /\ pc \in DOMAIN previous.alone
    /\ previous' = [previous EXCEPT !.phase = "pair"]
    /\ Resume(NewFrame(config))
    /\ UNCHANGED <<files, now>>

\* the scheduler takes the thread from the call that runs and gives it to
\* the call that waits
SwitchSharingCursor ==
    /\ previous.phase = "pair"
    /\ previous.waiting.pc \notin {"done", "raised"}
    /\ previous' = [previous EXCEPT
                       !.running = IF @ = "a" THEN "b" ELSE "a",
                       !.waiting = Frame]
    /\ Resume([previous.waiting EXCEPT !.cursor_y = cursor_y])
    /\ UNCHANGED <<files, now>>
Switch ==
    /\ previous.phase = "pair"
    /\ previous.waiting.pc \notin {"done", "raised"}
    /\ previous' = [previous EXCEPT
                       !.running = IF @ = "a" THEN "b" ELSE "a",
                       !.waiting = Frame]
    /\ Resume(previous.waiting)
    /\ UNCHANGED <<files, now>>

NextPair ==
    \/ Note
    \/ Step
    \/ BeginPair
    \/ Switch

SpecPair == InitPair /\ [][NextPair]_vars

----------------------------------------------------------------------------
(* Claims                                                                  *)

\* C1: for every config and slug no content-level problem raises an
\* exception to the caller: generate_flyer_pdf never ends by raising.
NoExceptionEscapes == pc # "raised"

\* the blocks that advance the cursor, from the header on
CursorBlocks ==
    {"header", "logo", "badge", "tagline", "headline", "intro", "qr", "topics",
     "extra", "cta", "links"}

\* C2: within one call the cursor only ever decreases: after each block
\* from the header to the link grid it is at most what it was before the
\* block, also when the call-to-action panel is pinned.
CursorOnlyDecreases ==
    [][(pc \in CursorBlocks) => (cursor_y' <= cursor_y)]_vars

\* the blocks that are to keep clear of the bottom margin
MarginBlocks == {"headline", "intro", "qr", "topics", "extra", "cta", "links"}

\* C3: no block from the headline to the link grid draws an element below
\* the bottom margin of 8 mm (a rectangle's lower edge, a string's
\* baseline, an image's lower edge).
NothingBelowBottomMargin ==
    \A i \in 1..Len(ops) :
        ops[i].block \in MarginBlocks => ops[i].y >= 8 * mm

\* the order in which generate_flyer_pdf draws its blocks (the header is
\* "header" then "logo")
FixedOrder ==
    << "top_bars", "header", "logo", "badge", "tagline", "headline", "intro",
       "qr", "topics", "extra", "cta", "links", "url", "bottom_bar" >>

Position(block) == CHOOSE i \in 1..Len(FixedOrder) : FixedOrder[i] = block

\* what the config must hold for a block to be drawn: its toggle, where
\* FlyerConfig has one for it, and its content
Allowed(block) ==
    CASE block = "logo" -> config.show_logo
      [] block = "badge" -> config.show_election_date /\ config.election_date # ""
      [] block = "tagline" -> config.show_tagline /\ config.tagline # ""
      [] block = "headline" -> config.show_headline /\ config.headline # ""
      [] block = "intro" -> config.show_intro /\ config.intro_text # ""
      [] block = "qr" -> config.show_qr /\ config.website_url # ""
      [] block = "topics" -> config.show_topics /\ config.topics # <<>>
      [] block = "extra" -> strip(config.extra_text) # ""
      [] block = "cta" -> config.show_cta /\ config.cta_text # ""
      [] block = "links" -> config.show_links /\ config.links # <<>>
      [] block = "url" -> config.show_website_url /\ config.website_url # ""
      [] OTHER -> TRUE

SameOutputTwice ==
    (pc = "done" /\ previous # NoResult) => result = previous

\* the three formats, in millimetres (width, height)
Formats == [a4 |-> <<210, 297>>, a5 |-> <<148, 210>>, a6 |-> <<105, 148>>]

\* the requested format's page box, in units
RequestedBox(format) ==
    IF config.orientation = "landscape"
    THEN <<format[2] * mm, format[1] * mm>>
    ELSE <<format[1] * mm, format[2] * mm>>

\* C6: for each of the three page sizes and both orientations the call
\* returns a document of exactly one page whose box is the requested
\* format: width below height for portrait, the two swapped for landscape.
ReturnsOnePageOfRequestedFormat ==
    (pc = "done" /\ config.page_size \in DOMAIN Formats) =>
        /\ result.status = "returned"
        /\ Len(result.pages) = 1
        /\ result.pages[1].mediabox = RequestedBox(Formats[config.page_size])
        /\ LET box == result.pages[1].mediabox
           IN  IF config.orientation = "landscape" THEN box[1] > box[2]
               ELSE box[1] < box[2]

\* C6's case: an A6 landscape flyer was returned
ReturnedA6Landscape ==
    /\ pc = "done"
    /\ config.page_size = "a6"
    /\ config.orientation = "landscape"
    /\ result.pages[1].mediabox = <<148 * mm, 105 * mm>>

\* what makes a call raise whatever its page size is
ContentRaises ==
    \/ HexRaises(config.theme_color)
    \/ config.show_qr /\ ~QrEncodable(config.website_url)
    \/ /\ config.show_topics
       /\ \E i \in 1..Len(config.topics) : HexRaises(TopicColor(config.topics[i]))

\* C7: a page size that is none of the three keys gives the A4 page, with
\* the orientation applied to it, and is no error: such a call raises only
\* for what its content holds.
UnknownPageSizeFallsBackToA4 ==
    config.page_size \notin DOMAIN Formats =>
        /\ pc # "start" => doc.pagesize = RequestedBox(Formats.a4)
        /\ pc = "done" => result.pages[1].mediabox = RequestedBox(Formats.a4)
        /\ pc = "raised" => ContentRaises

\* C7's case: a landscape flyer of an unknown page size was rendered in full
ReturnedLetterLandscape ==
    /\ pc = "done"
    /\ config.page_size = "letter"
    /\ config.orientation = "landscape"
    /\ result.pages[1].mediabox = <<297 * mm, 210 * mm>>
    /\ Len(order) = Len(FixedOrder) - 1

\* C8: for the three page sizes and both orientations the scale is
\* min(page_w / 210 mm, page_h / 297 mm), lies in (0, 1], and is 1 for A4
\* portrait only.
ScaleIsMinRatio ==
    (pc # "start" /\ config.page_size \in DOMAIN Formats) =>
        LET w == page_w \div mm
            h == page_h \div mm
        IN  /\ <<w * mm, h * mm>> = RequestedBox(Formats[config.page_size])
            /\ scale.n * (210 * 297) = scale.d * Min(w * 297, h * 210)
            /\ 0 < scale.n
            /\ scale.n <= scale.d
            /\ scale.n = scale.d <=>
                   (config.page_size = "a4" /\ config.orientation # "landscape")

\* C8's case: an A5 landscape flyer, whose scale is 148/297
ScaledA5Landscape ==
    /\ pc = "done"
    /\ config.page_size = "a5"
    /\ config.orientation = "landscape"
    /\ scale = [n |-> 148, d |-> 297]

\* the font-size constants of the blocks: (base, floor), in points
FontConstants ==
    [header |-> {<<22, 12>>, <<11, 7>>},
     badge |-> {<<10, 7>>},
     tagline |-> {<<10, 7>>},
     headline |-> {<<22, 12>>},
     intro |-> {<<10, 7>>},
     qr |-> {<<13, 9>>, <<9, 6>>},
     topics |-> {<<9, 6>>},
     extra |-> {<<9, 6>>},
     cta |-> {<<11, 8>>, <<8, 6>>},
     links |-> {<<7, 5>>, <<6, 5>>},
     url |-> {<<8, 6>>}]

TextKinds == {"string", "cstring", "blockstring"}

\* the effective size of constant c on a page, as the fraction n/d of a point
SizeOn(c, page_size, orientation) ==
    LET s == ScaleOf(PageSize([page_size |-> page_size,
                               orientation |-> orientation]))
    IN  [n |-> FontSizeAt(c[1], c[2], s), d |-> s.d]

AtMost(a, b) == a.n * b.d <= b.n * a.d

\* C9: every string is drawn at the effective size of one of its block's
\* font-size constants; that size is at least the constant's floor and at
\* most its base, and in the call's orientation it is no larger at A6 than at A5
\* and no larger at A5 than at A4.
FontSizesMonotoneAndBounded ==
    \A i \in 1..Len(ops) :
        ops[i].kind \in TextKinds =>
            \E c \in FontConstants[ops[i].block] :
                /\ ops[i].h = FontSize(c[1], c[2])
                /\ c[2] * pt <= ops[i].h
                /\ ops[i].h <= c[1] * pt
                /\ AtMost(SizeOn(c, "a6", config.orientation),
                          SizeOn(c, "a5", config.orientation))
                /\ AtMost(SizeOn(c, "a5", config.orientation),
                          SizeOn(c, "a4", config.orientation))

\* C9's case: on an A6 page the headline is drawn at its floor of 12 pt,
\* on a page where 22 pt * scale is below it
HeadlineAtFloor ==
    /\ config.page_size = "a6"
    /\ ops # <<>>
    /\ ops[1].block = "headline"
    /\ ops[1].h = 12 * pt
    /\ 22 * scale.n < 12 * scale.d

\* base millimetres times the scale n/d, in units: a millimetre is 1440 * d
\* units
MmTimesScale(base) == base * 1440 * scale.n

\* the elements of the text blocks that start at the page margin
AtMargin(op) ==
    \/ op.block \in {"badge", "tagline", "headline", "intro"} /\ op.kind = "textrect"
    \/ op.block \in {"tagline", "headline", "intro"} /\ op.kind = "string"

WordsOf(text) == SelectSeq(ChunksFrom(text, 1), LAMBDA chunk : ~IsSpace(chunk))

RECURSIVE WordsOfLines(_)
WordsOfLines(lines) ==
    IF lines = <<>> THEN <<>> ELSE WordsOf(Head(lines)) \o WordsOfLines(Tail(lines))

\* C11: every line that wrap returns is at most width characters long; the
\* words of the lines are, in order, the words of the text (no word is
\* split); a text shorter than width comes back as one line equal to it
WrapFitsAndKeepsWords ==
    pc = "wrapped" =>
        /\ \A i \in 1..Len(result.lines) : Len(result.lines[i]) <= config.width
        /\ WordsOfLines(result.lines) = WordsOf(config.text)
        /\ Len(config.text) < config.width => result.lines = <<config.text>>

\* the source lines of the extra text that the block looks at
SourceLines ==
    LET raw_lines == splitlines(strip(config.extra_text))
    IN  [i \in 1..Min(10, Len(raw_lines)) |-> strip(raw_lines[i])]

\* how many of them are blank
BlankLines == Cardinality({ i \in 1..Len(SourceLines) : SourceLines[i] = "" })

\* the baselines of a block's strings
Baselines(block_ops) ==
    { block_ops[i].y : i \in { j \in 1..Len(block_ops) : block_ops[j].kind = "string" } }

\* the strings of a block that are set in font size `size`
StringsOfSize(block_ops, size) ==
    SelectSeq(block_ops, LAMBDA op : op.kind = "string" /\ op.h = size)

\* C12: the headline block draws at most 3 lines, the intro at most 5, the
\* call to action at most 2 heading lines, the extra text at most 3 display
\* lines for each of at most 10 source lines; the cursor drops by one line
\* height for each line drawn (half a line for a blank source line) plus the
\* block's gap, so lines beyond a cap do not move it.
LineCapsHold ==
    [][ /\ (pc = "headline" /\ config.show_headline /\ config.headline # "") =>
               /\ Len(ops') <= 3
               /\ cursor_y - cursor_y'
                      = Len(ops') * (FontSize(22, 12) + 2 * pt) + Scaled(2 * mm)
        /\ (pc = "intro" /\ config.show_intro /\ config.intro_text # "") =>
               /\ Len(ops') <= 5
               /\ cursor_y - cursor_y'
                      = Len(ops') * (FontSize(10, 7) + 2 * pt) + Scaled(3 * mm)
        /\ (pc = "extra" /\ strip(config.extra_text) # "") =>
               LET line_h == FontSize(9, 6) + Quarters(10)
                   shown == Cardinality(Baselines(ops'))
               IN  /\ Len(SourceLines) <= 10
                   /\ shown <= 3 * (Len(SourceLines) - BlankLines)
                   /\ cursor_y - cursor_y'
                          = shown * line_h + BlankLines * (line_h \div 2)
                            + Scaled(2 * mm)
        /\ (pc = "cta") =>
               Len(StringsOfSize(ops', FontSize(11, 8))) <= 2
      ]_vars

\* the headline wraps to more than 3 lines and 3 are drawn
HeadlineCutAtThree ==
    /\ pc = "intro"
    /\ Len(ops) = 3
    /\ ops[1].block = "headline"
    /\ Len(wrap(config.headline, MaxChars(content_w, FontSize(22, 12), 1, 2))) > 3

\* the three bullet markers
MarkerChars == {"-", "*", U2022}

\* the first non-space character of a source line is a marker
StartsWithMarker(line) == line # "" /\ SubSeq(line, 1, 1) \in MarkerChars

\* the line without its marker
WithoutMarker(line) == strip(SubSeq(line, 2, Len(line)))

RECURSIVE MarkedLines(_, _)
\* where each display line starts and what it shows, when the lines that
\* start with a marker are the bullets and lose only the marker
MarkedLines(lines, max_chars) ==
    IF lines = <<>> THEN <<>>
    ELSE LET line == Head(lines)
             bullet == StartsWithMarker(line)
             wrapped == Take(wrap(IF bullet THEN WithoutMarker(line) ELSE line,
                                  max_chars), 3)
             shown == [j \in 1..Len(wrapped) |->
                          [x |-> IF bullet THEN margin + 4 * mm ELSE margin,
                           text |-> wrapped[j]]]
         IN  (IF bullet /\ wrapped # <<>>
              THEN << [x |-> margin, text |-> U2022] >> ELSE <<>>)
             \o shown
             \o MarkedLines(Tail(lines), max_chars)

\* C13: in the extra-text block a source line is a bullet exactly when its
\* first non-space character is one of the markers -, *, U+2022; a bullet
\* loses only its marker, gets the bullet glyph at the margin in front of its
\* first display line and has all its display lines indented; any other line
\* is drawn unchanged at the margin with no glyph.
BulletsByMarker ==
    (pc = "cta" /\ strip(config.extra_text) # "") =>
        [i \in 1..Len(ops) |-> [x |-> ops[i].x, text |-> ops[i].text]]
            = MarkedLines(SelectSeq(SourceLines, LAMBDA line : line # ""),
                          MaxChars(content_w, FontSize(9, 6), 9, 20))

\* C14, amended: the QR centerpiece, its code image included, is drawn only
\* when show_qr is true and website_url is non-empty at the same time, and
\* every other code image is one of the link grid, drawn only when show_links
\* is true, for a link with a non-empty url.
CodeImagesFollowTheirToggles ==
    \A i \in 1..Len(ops) :
        /\ ops[i].block = "qr" => (config.show_qr /\ config.website_url # "")
        /\ ops[i].kind = "qr" =>
               \/ ops[i].block = "qr"
               \/ /\ ops[i].block = "links"
                  /\ config.show_links
                  /\ ops[i].text # ""
                  /\ \E k \in 1..Len(config.links) :
                         LinkUrl(config.links[k]) = ops[i].text

\* show_qr is off, the URL is there, and the QR block has drawn nothing
QrOffDrawsNoPanel ==
    /\ pc = "topics"
    /\ ~config.show_qr
    /\ config.website_url # ""
    /\ ops = <<>>

\* C14, as stated: with show_qr false or website_url empty the output holds
\* no code image at all.
NoCodeImageUnlessQrToggled ==
    (~config.show_qr \/ config.website_url = "") =>
        \A i \in 1..Len(ops) : ops[i].kind # "qr"

\* the URL without a protocol prefix at its start
StripLeadingProtocol(url) ==
    IF startswith(url, "https://") THEN SubSeq(url, 9, Len(url))
    ELSE IF startswith(url, "http://") THEN SubSeq(url, 8, Len(url))
    ELSE url

\* C15: the centerpiece code image encodes config.website_url as it is and a
\* link's code image the link's url as it is; the URL text at the bottom is
\* website_url with only a leading https:// or http:// removed.
PayloadExactDisplayStripsPrefix ==
    /\ \A i \in 1..Len(ops) :
           (ops[i].kind = "qr" /\ ops[i].block = "qr") =>
               ops[i].text = config.website_url
    /\ \A i \in 1..Len(ops) :
           (ops[i].kind = "qr" /\ ops[i].block = "links") =>
               \E k \in 1..Len(config.links) :
                   LinkUrl(config.links[k]) = ops[i].text
    /\ \A i \in 1..Len(ops) :
           ops[i].block = "url" =>
               ops[i].text = StripLeadingProtocol(config.website_url)

\* C16: when the topics block runs to its end with show_topics on and n
\* topics, it draws min(n, 6) tiles in list order, tile i (from 0) in column
\* i mod 2 and row i div 2 of a grid of 2 columns, and the cursor drops by
\* ceil(min(n, 6) / 2) rows of tile height plus gap, plus the trailing gap.
TilesInTwoColumns ==
    [][ (pc = "topics" /\ pc' = "extra" /\ config.show_topics) =>
            LET n == Min(Len(config.topics), 6)
                tile_h == Scaled(9 * mm)
                tile_gap == 3 * mm
                col_w == (content_w - tile_gap) \div 2
            IN  /\ Len(ops') = 3 * n
                /\ \A i \in 0..(n - 1) :
                       LET tile == ops'[3 * i + 1]
                           title == ops'[3 * i + 3]
                       IN  /\ tile.kind = "rect"
                           /\ tile.x = margin + (i % 2) * (col_w + tile_gap)
                           /\ tile.y + tile.h
                                  = cursor_y - (i \div 2) * (tile_h + tile_gap)
                           /\ title.kind = "string"
                           /\ title.text = TopicTitle(config.topics[i + 1])
                /\ cursor_y - cursor_y'
                       = IF n = 0 THEN 0
                         ELSE ((n + 1) \div 2) * (tile_h + tile_gap) + Scaled(3 * mm)
      ]_vars

\* 8 topics, 6 tiles
EightTopicsSixTiles ==
    /\ pc = "extra"
    /\ config.show_topics
    /\ Len(config.topics) = 8
    /\ Len(ops) = 18
    /\ ops[16].block = "topics"
    /\ ops[16].x > margin

\* the link grid's measures: item size and gap, items of a row, rows of n
\* items, the height a row takes, the height the section asks for
ItemSize == Min(Scaled(22 * mm), 22 * mm)
ItemGap == Scaled(4 * mm)
ItemsPerRow == Max(1, (content_w + ItemGap) \div (ItemSize + ItemGap))
RowsFor(n) == (n + ItemsPerRow - 1) \div ItemsPerRow
LabelLineHeight == FontSize(6, 5) + 2 * pt
RowDrop == ItemSize + LabelLineHeight + Scaled(2 * mm)
SectionHeight(n) ==
    FontSize(7, 5) + Scaled(3 * mm)
    + RowsFor(n) * (ItemSize + LabelLineHeight + 2 * pt + Scaled(2 * mm))

\* the links that have a non-empty url
WithUrl(links) ==
    SelectSeq(links, LAMBDA lnk : "url" \in DOMAIN lnk /\ lnk.url # "")

\* the labels and the code images of a block
Labels(block_ops) == SelectSeq(block_ops, LAMBDA op : op.kind = "cstring")
Codes(block_ops) == SelectSeq(block_ops, LAMBDA op : op.kind = "qr")

\* C17: links without a url, or with an empty one, get no label, no code
\* image and no slot: the labels drawn are those of the valid links, in
\* order, the rows and the cursor drop are those of the valid links alone;
\* with no valid link nothing is drawn and the cursor stays.
InvalidLinksTakeNoSlot ==
    [][ (pc = "links") =>
            LET valid == WithUrl(config.links)
                labels == Labels(ops')
                codes == Codes(ops')
                max_label_chars == Max(1, MaxChars(ItemSize, FontSize(6, 5), 9, 20))
            IN  /\ valid = <<>> => (ops' = <<>> /\ cursor_y' = cursor_y)
                /\ ops' # <<>> =>
                       /\ Len(labels) = Len(valid)
                       /\ \A i \in 1..Len(labels) :
                              labels[i].text
                                  = shorten(LinkLabel(valid[i]), max_label_chars)
                       /\ \A i \in 1..Len(codes) :
                              \E k \in 1..Len(valid) : valid[k].url = codes[i].text
                       /\ Cardinality({ labels[i].y : i \in 1..Len(labels) })
                              = RowsFor(Len(valid))
                       /\ cursor_y - cursor_y'
                              = FontSize(7, 5) + Scaled(2 * mm)
                                + RowsFor(Len(valid)) * RowDrop + Scaled(2 * mm)
      ]_vars

\* two of four links are valid, and the grid shows two items
TwoOfFourLinksShown ==
    /\ pc = "url"
    /\ Len(config.links) = 4
    /\ Len(WithUrl(config.links)) = 2
    /\ Len(Labels(ops)) = 2
    /\ ops[1].block = "links"

\* C18: the link grid is drawn exactly when it is asked for and
\* cursor_y - section_total_h > 8 mm, and the block never raises; when it is
\* drawn, every code image and every label baseline is above 8 mm, no row
\* holds more than max_items_per_row items and no row is wider than the
\* content width.
LinkGridFitsOrIsOmitted ==
    [][ (pc = "links") =>
            LET n == Len(WithUrl(config.links))
                labels == Labels(ops')
            IN  /\ pc' = "url"
                /\ (ops' # <<>>) <=>
                       /\ config.show_links
                       /\ n > 0
                       /\ cursor_y - SectionHeight(n) > 8 * mm
                /\ \A i \in 1..Len(ops') :
                       ops'[i].kind \in {"qr", "cstring"} => ops'[i].y > 8 * mm
                /\ \A i \in 1..Len(labels) :
                       LET row == { j \in 1..Len(labels) : labels[j].y = labels[i].y }
                       IN  /\ Cardinality(row) <= ItemsPerRow
                           /\ \A j \in row :
                                  /\ labels[j].x - labels[i].x + ItemSize <= content_w
                                  /\ labels[j].x - ItemSize \div 2 >= margin
                                  /\ labels[j].x + ItemSize \div 2 <= margin + content_w
      ]_vars

\* a grid of more than one row is drawn
GridOfTwoRows ==
    /\ pc = "url"
    /\ ops # <<>>
    /\ ops[1].block = "links"
    /\ Cardinality({ Labels(ops)[i].y : i \in 1..Len(Labels(ops)) }) >= 2

\* C19: the CTA panel's lower edge is at cursor_y - cta_box_h, or at 8 mm
\* when that is lower; it is never below 8 mm, so the panel is on the page
\* and above the bottom bar of 3 mm.
CtaPanelPinnedAtMinimum ==
    [][ (pc = "cta" /\ ops' # <<>>) =>
            LET cta_box_h == Scaled(16 * mm)
                panel == ops'[1]
            IN  /\ panel.kind = "rect"
                /\ panel.h = cta_box_h
                /\ panel.y = Max(cursor_y - cta_box_h, 8 * mm)
                /\ panel.y >= 8 * mm
                /\ panel.y > 3 * mm
                /\ panel.y + panel.h <= page_h
                /\ panel.x >= 0
                /\ panel.x + panel.w <= page_w
      ]_vars

\* the panel is pinned: the cursor was too low for it
CtaPinned ==
    /\ pc = "links"
    /\ ops # <<>>
    /\ ops[1].block = "cta"
    /\ ops[1].y = 8 * mm
    /\ cursor_y = 8 * mm - Scaled(3 * mm)

\* the file the header takes the portrait from
PortraitFile ==
    IF config.portrait_path # "" THEN config.portrait_path
    ELSE PathJoin(PathJoin(UPLOAD_BASE, config.slug), "portrait.jpg")

\* C20: candidate name and party start at portrait_x + portrait_size + 5 mm
\* when the portrait was drawn, and at the left margin when it was not:
\* show_portrait off, no file at the portrait's path, or drawing raised.
NameStartsAtMarginWithoutPortrait ==
    (pc = "logo") =>
        LET drawn == \E i \in 1..Len(ops) : ops[i].kind = "image"
            strings == SelectSeq(ops, LAMBDA op : op.kind = "string")
        IN  /\ drawn <=> /\ config.show_portrait
                         /\ PortraitFile \in DOMAIN files
                         /\ files[PortraitFile] = "ok"
            /\ strings # <<>>
            /\ strings[1].text = config.candidate_name
            /\ \A i \in 1..Len(strings) :
                   strings[i].x = IF drawn THEN margin + Scaled(32 * mm) + 5 * mm
                                  ELSE margin

\* drawing the portrait raised, and the name starts at the margin
PortraitRaisedNameAtMargin ==
    /\ pc = "logo"
    /\ config.show_portrait
    /\ PortraitFile \in DOMAIN files
    /\ files[PortraitFile] # "ok"
    /\ \E i \in 1..Len(ops) :
           /\ ops[i].kind = "string"
           /\ ops[i].text = "Jane Doe"
           /\ ops[i].x = margin

\* C21: _find_logo returns the first existing candidate in this order: the
\* config path when it is non-empty and an existing file, then logo.svg,
\* logo.png, logo.jpg, logo.jpeg, logo.webp of the tenant's upload
\* directory, then the static logo.svg, logo.png, spd-logo.svg,
\* spd-logo.png; it returns None ("") only if none of them exists.
LogoCandidates ==
    (IF config.logo_path # "" THEN <<config.logo_path>> ELSE <<>>)
    \o << "/data/uploads/jane/logo.svg", "/data/uploads/jane/logo.png",
          "/data/uploads/jane/logo.jpg", "/data/uploads/jane/logo.jpeg",
          "/data/uploads/jane/logo.webp",
          "/static/assets/img/logo.svg", "/static/assets/img/logo.png",
          "/static/assets/img/spd-logo.svg", "/static/assets/img/spd-logo.png" >>

\* C21: see above; stated on the value FindLogo got from _find_logo
FindLogoReturnsFirstCandidate ==
    (pc = "found") =>
        IF \A i \in 1..Len(LogoCandidates) : LogoCandidates[i] \notin DOMAIN files
        THEN result.path = ""
        ELSE \E i \in 1..Len(LogoCandidates) :
                /\ result.path = LogoCandidates[i]
                /\ LogoCandidates[i] \in DOMAIN files
                /\ \A j \in 1..(i - 1) : LogoCandidates[j] \notin DOMAIN files

\* a config path that is no file, no uploaded SVG: the uploaded PNG is found
\* before the uploaded JPG and the static logo
MissingConfigPathFindsUploadedPng ==
    /\ pc = "found"
    /\ config.logo_path = "/data/uploads/jane/brand.png"
    /\ DOMAIN files = {"/data/uploads/jane/logo.png", "/data/uploads/jane/logo.jpg",
                       "/static/assets/img/logo.svg"}
    /\ result.path = "/data/uploads/jane/logo.png"

\* C30: after any sequence of logo uploads for the tenant, _find_logo with
\* an empty config path returns the file the most recent upload wrote:
\* an SVG upload followed by a PNG upload makes the flyer use the PNG.
LatestUploadIsFound ==
    (pc = "found" /\ config.logo_path = "" /\ order # <<>>) =>
        result.path = "/data/uploads/jane/" \o order[Len(order)]

\* the tenant has no portrait: config.portrait_path is empty or names no
\* file, and no portrait was uploaded
NoPortraitFile ==
    /\ config.portrait_path = "" \/ config.portrait_path \notin DOMAIN files
    /\ "/data/uploads/jane/portrait.jpg" \notin DOMAIN files

\* C22: the portrait has no static fallback: when the tenant has no portrait
\* file the portrait block is skipped entirely (no saved state, no border
\* circle, no clip, no image), the header draws its texts only, and the
\* rest of the document is rendered: the call raises for its content alone
\* and a call that gets to the end has drawn the bottom bar.
MissingPortraitIsSkipped ==
    NoPortraitFile =>
        /\ (pc = "logo") =>
              /\ ops # <<>>
              /\ \A i \in 1..Len(ops) :
                    ops[i].block = "header" /\ ops[i].kind = "string"
              /\ gstate = 0
        /\ (pc = "raised") => ContentRaises
        /\ (pc \in {"save", "done"}) => order[Len(order)] = "bottom_bar"

\* a tenant without portrait, with static logos at hand and show_portrait
\* on: the header was drawn without portrait and the call returned
ReturnedWithoutPortrait ==
    /\ pc = "done"
    /\ NoPortraitFile
    /\ config.show_portrait
    /\ "/static/assets/img/logo.png" \in DOMAIN files
    /\ \E i \in 1..Len(order) : order[i] = "header"
    /\ \E i \in 1..Len(order) : order[i] = "qr"
    /\ result.status = "returned"

\* C23: generate_flyer_pdf searches the file system only to resolve a logo
\* when config.logo_path is empty: a portrait that is drawn is the file of
\* config.portrait_path, and with a non-empty config.logo_path a logo that
\* is drawn is that file, never one found by searching.
SearchesOnlyForUnsetLogo ==
    /\ (pc = "logo") =>
          \A i \in 1..Len(ops) :
              ops[i].kind = "image" => ops[i].text = config.portrait_path
    /\ (pc = "badge" /\ config.logo_path # "") =>
          \A i \in 1..Len(ops) :
              ops[i].kind = "image" => ops[i].text = config.logo_path

\* the file the logo search ends at, "" if it finds none
FoundLogo ==
    IF \E i \in 1..Len(LogoCandidates) : LogoCandidates[i] \in DOMAIN files
    THEN LogoCandidates[CHOOSE i \in 1..Len(LogoCandidates) :
            /\ LogoCandidates[i] \in DOMAIN files
            /\ \A j \in 1..(i - 1) : LogoCandidates[j] \notin DOMAIN files]
    ELSE ""

\* C24: when the logo that was found cannot be read (rasterizing the SVG
\* fails, the raster file cannot be opened), _load_image_reader returns
\* None instead of raising: the logo block draws nothing and leaves the
\* cursor below the header as it does with a logo, the call raises for its
\* content alone, and a call that gets to the end has drawn the bottom bar
\* and no logo.
UnreadableLogoIsOmitted ==
    (config.show_logo /\ FoundLogo # "" /\ files[FoundLogo] = "corrupt") =>
        /\ (pc = "badge") =>
              /\ ops = <<>>
              /\ cursor_y = page_h - Scaled(8 * mm) - 6 * mm - Scaled(38 * mm)
        /\ (pc = "raised") => ContentRaises
        /\ (pc \in {"save", "done"}) =>
              /\ order[Len(order)] = "bottom_bar"
              /\ \A i \in 1..Len(order) : order[i] # "logo"

\* the uploaded SVG logo cannot be rasterized: the call returned a flyer
\* without logo, with every block from the badge to the bottom bar (but
\* for the link grid, which this config leaves no room for)
ReturnedWithoutLogo ==
    /\ pc = "done"
    /\ config.show_logo
    /\ FoundLogo = "/data/uploads/jane/logo.svg"
    /\ files[FoundLogo] = "corrupt"
    /\ order = SelectSeq(FixedOrder, LAMBDA b : b \notin {"logo", "links"})
    /\ result.status = "returned"

\* the blocks behind the QR panel, and behind the link grid
BehindQr ==
    {"topics", "extra", "cta", "links", "url", "bottom_bar", "save", "done"}
BehindLinks == {"url", "bottom_bar", "save", "done"}

\* C25: whenever a payload cannot be encoded the failure reaches the caller
\* as a fatal error and is never swallowed: no call gets past the QR panel
\* when the panel is to be drawn and the website URL cannot be encoded, and
\* no call gets past a link grid it drew when the URL of one of the grid's
\* links cannot be encoded.
EncodeFailureIsFatal ==
    /\ (/\ config.show_qr
        /\ config.website_url # ""
        /\ ~QrEncodable(config.website_url)) => pc \notin BehindQr
    /\ (/\ \E i \in 1..Len(order) : order[i] = "links"
        /\ \E k \in 1..Len(config.links) :
              /\ "url" \in DOMAIN config.links[k]
              /\ config.links[k].url # ""
              /\ ~QrEncodable(config.links[k].url)) => pc \notin BehindLinks

\* the optional blocks, and what makes the config skip one: its toggle is
\* off, its content is empty or, for the link grid, the section has no room
OptionalBlocks ==
    {"badge", "tagline", "headline", "intro", "qr", "topics", "extra", "cta",
     "links"}
Skipped(block) ==
    IF block = "links"
    THEN \/ ~config.show_links
         \/ WithUrl(config.links) = <<>>
         \/ ~(cursor_y - SectionHeight(Len(WithUrl(config.links))) > 8 * mm)
    ELSE ~Allowed(block)

\* C27: a skipped optional block has no effect on the layout: for badge,
\* tagline, headline, intro, QR panel, topic tiles, extra text, CTA panel
\* and link grid, when the toggle is off or the content is empty (or the
\* link grid has no room), nothing is drawn, the block does not raise and
\* the cursor after the block is the cursor before it; the website URL text
\* and the bottom accent bar never change the cursor.
SkippedBlockLeavesCursor ==
    [][ /\ (pc \in OptionalBlocks /\ Skipped(pc)) =>
              /\ ops' = <<>>
              /\ order' = order
              /\ cursor_y' = cursor_y
              /\ pc' # "raised"
        /\ (pc \in {"url", "bottom_bar"}) => (cursor_y' = cursor_y)
      ]_vars

\* every optional block was skipped: the call drew bars and header only and
\* the cursor is still where the logo block left it
OnlyBarsAndHeader ==
    /\ pc = "done"
    /\ order = <<"top_bars", "header", "bottom_bar">>
    /\ \A b \in OptionalBlocks : ~Allowed(b)
    /\ cursor_y = page_h - Scaled(8 * mm) - 6 * mm - Scaled(38 * mm)

\* the operations of a block whose position is a point on a text's baseline
\* or the lower-left corner of a code image
PanelContents(block_ops) ==
    SelectSeq(block_ops, LAMBDA op : op.kind \in {"qr", "cstring", "blockstring"})

\* C28: the QR panel's box_h is computed from its contents before anything
\* is drawn: the panel is the block's first operation, its top is at the
\* cursor and its height is padding + code + gap + label + 4 pt + three
\* bullet lines + padding; on every page the code image, the baseline of
\* the "scan me" label and the baselines of all three feature bullets lie
\* vertically inside [box_y, box_y + box_h]; after the block the cursor is
\* box_y - 5 mm * scale.
QrContentsInsidePanel ==
    [][ (pc = "qr" /\ pc' = "topics" /\ ops' # <<>>) =>
            LET panel == ops'[1]
                inner == PanelContents(ops')
                box_y == panel.y
                box_h == panel.h
            IN  /\ panel.kind = "rect"
                /\ panel.text = "panel"
                /\ box_y + box_h = cursor_y
                /\ box_h = 2 * Scaled(6 * mm) + Min(Scaled(55 * mm), 55 * mm)
                           + Scaled(4 * mm) + FontSize(13, 9) + 4 * pt
                           + 3 * (FontSize(9, 6) + 3 * pt)
                /\ Len(SelectSeq(inner, LAMBDA op : op.kind = "qr")) = 1
                /\ Len(SelectSeq(inner, LAMBDA op : op.kind = "cstring")) = 1
                /\ Cardinality({ inner[i].y : i \in { j \in 1..Len(inner) :
                                     inner[j].kind = "blockstring" } }) = 3
                /\ \A i \in 1..Len(inner) :
                       /\ inner[i].y >= box_y
                       /\ inner[i].y <= box_y + box_h
                       /\ inner[i].kind = "qr" => inner[i].y + inner[i].h <= box_y + box_h
                /\ cursor_y' = box_y - Scaled(5 * mm)
      ]_vars

\* the panel on the smallest page, A6 landscape: the last bullet's baseline
\* is one point less than the padding above the panel's lower edge
QrPanelOnA6Landscape ==
    /\ pc = "topics"
    /\ config.page_size = "a6"
    /\ config.orientation = "landscape"
    /\ ops # <<>>
    /\ ops[1].block = "qr"
    /\ ops[Len(ops)].kind = "blockstring"
    /\ ops[Len(ops)].y = ops[1].y + Scaled(6 * mm) - pt
    /\ cursor_y = ops[1].y - Scaled(5 * mm)

\* C29: on every path through the portrait block, the one where drawing the
\* portrait raises behind the clip path included, each saveState is matched
\* by a restoreState before the next element is drawn: a block's operations
\* hold as many restoreState as saveState, and no block leaves a saved
\* graphics state (and with it the circular clip region) on the stack.
SavedStateIsRestored ==
    /\ Len(SelectSeq(ops, LAMBDA op : op.kind = "saveState"))
           = Len(SelectSeq(ops, LAMBDA op : op.kind = "restoreState"))
    /\ gstate = 0

\* the locals of call a and of call b while the two run together
FrameOf(call) == IF previous.running = call THEN Frame ELSE previous.waiting

\* C26: in any interleaving of two calls, for the same tenant or for two,
\* each call has at every step the values it has at that step when it runs
\* alone (cursor, canvas operations, geometry, document and output): call a
\* is compared with its run alone, and call b whenever its config is a's;
\* nothing survives the render that ran before, and the shared values (the
\* files; the page sizes and directories are constants) are never written.
InterleavedCallsRunAsAlone ==
    /\ files = previous.files
    /\ previous.phase = "pair" =>
          /\ FrameOf("a") = previous.alone[FrameOf("a").pc]
          /\ FrameOf("b").config = FrameOf("a").config =>
                 FrameOf("b") = previous.alone[FrameOf("b").pc]

\* both calls are under way, for two tenants, with different cursors
TwoCallsUnderWay ==
    /\ previous.phase = "pair"
    /\ previous.running = "a"
    /\ pc = "cta"
    /\ previous.waiting.pc = "qr"
    /\ previous.waiting.config.slug # config.slug
    /\ previous.waiting.cursor_y # cursor_y
    /\ previous.waiting.cursor_y # 0

=============================================================================
